---------------------------- MODULE Spec2Model ----------------------------
(***************************************************************************)
(* A model of COMSOL3DBin: the CD3Data field tree (ReadField.c,            *)
(* COMSOLData3D.c), the Gauss-Seidel smoother (GSSmooth.c,                 *)
(* CD3Smoothable.cpp), the binary field file and the interpolation         *)
(* (COMSOLData3D.c), XYCompatible (COMSOLZMerge.cpp), the cylinder         *)
(* (Geometries.c), the geometry file (CD3List.c), CD3Init and the sample   *)
(* counts and offsets in the widths of the program's integers.             *)
(*                                                                         *)
(* Coordinates are doubles in the program.  In the field tree a            *)
(* coordinate is an integer number of units of 1e-8, so that 1e-6 is 100   *)
(* units and a coordinate of 1.0 is 100,000,000 units, and every           *)
(* comparison the code makes on doubles is made on these integers exactly. *)
(* The smoother and the interpolation compute in IEEE 754 doubles, with    *)
(* their rounding.                                                         *)
(***************************************************************************)
EXTENDS Integers, Sequences, FiniteSets, TLC

VARIABLES
    \* ---- descriptor parse (ParseFieldSet / ParseCField) and point queries
    root,       \* the CD3Data the caller handed to ParseFieldSet
    stack,      \* the active ParseCField calls, outermost first
    pres,       \* "run" while ParseFieldSet runs, then its result
    nread,      \* lines read so far
    seen,       \* history: what the descriptor read so far contained
    q,          \* the last point query made on the finished tree
    \* ---- AddField calls on one parent
    par,        \* the parent CD3Data
    last,       \* the last AddField call: parent before, child, result
    nAdd,       \* AddField calls made
    \* ---- the Gauss-Seidel smoother (GSSmooth / CD3Smoothable)
    tgt,        \* the CD3Data smoothed: grid shape, stride, child count
    a,          \* its samples, dp->mField: 3 components per grid point
    a0,         \* history: the samples when the smoothing call was made
    ptype,      \* the point type array: 1 = free, 0 = fixed
    sm,         \* where the smoothing call stands, and what it returned
    \* ---- the binary field file (CD3WriteBinary / CD3ReadBinary)
    bin,        \* the CD3Data in memory, the names, the file, the results
    \* ---- single calls: interpolation, XYCompatible, the cylinder, the
    \* geometry file, CD3Init, the counts
    ev          \* the arguments of the last call and what it returned

treeVars == <<root, stack, pres, nread, seen, q>>
addVars  == <<par, last, nAdd>>
\* what the parser and the queries leave alone, and what AddField calls do
notTree  == <<par, last, nAdd, tgt, a, a0, ptype, sm, bin, ev>>
notAdd   == <<root, stack, pres, nread, seen, q, tgt, a, a0, ptype, sm, bin,
              ev>>
notSmooth == <<root, stack, pres, nread, seen, q, par, last, nAdd, bin, ev>>
smVars   == <<tgt, a, a0, ptype, sm>>
notBin   == <<root, stack, pres, nread, seen, q, par, last, nAdd,
              tgt, a, a0, ptype, sm, ev>>
notEv    == <<root, stack, pres, nread, seen, q, par, last, nAdd,
              tgt, a, a0, ptype, sm, bin>>
vars     == <<root, stack, pres, nread, seen, q, par, last, nAdd,
              tgt, a, a0, ptype, sm, bin, ev>>

-----------------------------------------------------------------------------
(* Bounds of the model *)

MaxLines == 6
MaxAdds == 2
MaxPass == 2
MaxGeoms == 2

-----------------------------------------------------------------------------
(* Program constants *)

kNSub == 20
kCD3Data2 == 0
kCD3Data3 == 1
kCD3Unused == 2
kCD3Error == 3
kCDNoErr == 0
kCDAllocFailed == 3
kCDNotLeaf == 7
kCDNot4Fold == 8
kCDBadGeom == 9
\* 1e-6 in units of 1e-8, and the divisor that multiplies by 1e-6
Micro == 100
PerMillion == 1000000

TypeTags == {kCD3Data2, kCD3Data3, kCD3Unused, kCD3Error}
Axes == 1..3
\* 1.0 in units of 1e-8
U == 100 * PerMillion

fabs(x) == IF x < 0 THEN -x ELSE x

-----------------------------------------------------------------------------
(* CD3Data (COMSOLData3D.h:54-69).  The fields the tree operations read:   *)
(* mType, the bounding box mMin/mMax, mNSubField and mSubField (a child is *)
(* held here by value: the parser gives every child its own malloc'ed      *)
(* struct), mField ("NULL" or a token naming the sample buffer) and        *)
(* mFieldName.  mNVal, mDelta and mStride are not read by these operations.*)

NullField == "NULL"

Loaded(name, type, box) ==
    [mType |-> type, mMin |-> box.mMin, mMax |-> box.mMax,
     mNSubField |-> 0, mSubField |-> <<>>,
     mField |-> name, mFieldName |-> name]

\* A CD3Data with no samples and no children, as its owner initialised it
\* (CD3Smoothable's constructor; ParseCField itself sets none of these fields).
Empty(type, box) ==
    [mType |-> type, mMin |-> box.mMin, mMax |-> box.mMax,
     mNSubField |-> 0, mSubField |-> <<>>,
     mField |-> NullField, mFieldName |-> ""]

Box(lo, hi) == [mMin |-> lo, mMax |-> hi]
Cube(lo, hi) == Box(<<lo, lo, lo>>, <<hi, hi, hi>>)

\* The binary field files of the working directory: B inside C inside A.
Names == {"A", "B", "C"}
FileType(name) == IF name = "C" THEN kCD3Data2 ELSE kCD3Data3
FileBox(name) ==
    CASE name = "A" -> Box(<<-4*U, -4*U, 0>>, <<4*U, 4*U, 4*U>>)
      [] name = "C" -> Box(<<-2*U, -2*U, U>>, <<2*U, 2*U, 3*U>>)
      [] OTHER      -> Cube(U, 2*U)

\* The CD3Data a caller hands to ParseFieldSet has no samples and no
\* children; its type tag and bounds are the caller's: zero-filled bounds,
\* the empty box (min above max) of CD3Smoothable's constructor, or, with
\* the tag kCD3Unused ("only bounds valid"), the bounds of all it is to hold.
ZeroBox == Cube(0, 0)
EmptyBox == Cube(10*U, -10*U)
RootInits ==
    {Empty(t, b) : t \in TypeTags, b \in {ZeroBox, EmptyBox}}
        \cup {Empty(kCD3Unused, FileBox("A"))}

\* The points queried: inside B, on B's upper corner, in C only, in A only
\* (beside B on each axis in turn), the origin, and outside everything.
H == U \div 2
QueryCoords ==
    { <<3*H, 3*H, 3*H>>, <<2*U, 2*U, 2*U>>, <<0, 0, 2*U>>, <<0, 0, H>>,
      <<3*H, 3*H, 7*H>>, <<3*H, 3*U, 3*H>>, <<3*U, 3*H, 3*H>>,
      <<0, 0, 0>>, <<5*U, 0, U>> }

-----------------------------------------------------------------------------
(* Bounds tests *)

PtInBounds(dp, coord) ==
    \A i \in Axes : ~(coord[i] < dp.mMin[i] \/ coord[i] > dp.mMax[i])

\* eps = (fabs(c) < 1e-6) ? 1e-6 : 1e-6 * fabs(c), rounded down to a whole
\* unit: the differences compared with it are whole numbers of units, and
\* for an integer d and a real eps >= 0, d > eps iff d > floor(eps).
SoftEps(c) == IF fabs(c) < Micro THEN Micro ELSE fabs(c) \div PerMillion

SoftPtInBounds(dp, coord) ==
    \A i \in Axes :
        ~(   (dp.mMin[i] - coord[i]) > SoftEps(coord[i])
          \/ (coord[i] - dp.mMax[i]) > SoftEps(coord[i]))

\* Containment tests that look at the child's minimum corner only, and that
\* test a parent without samples like any other.
FieldInFieldMinOnly(od, nd) ==
    IF od.mField = NullField THEN TRUE
    ELSE SoftPtInBounds(od, nd.mMin)

FieldInFieldNoNull(od, nd) ==
    SoftPtInBounds(od, nd.mMin) /\ SoftPtInBounds(od, nd.mMax)

FieldInField(od, nd) ==
    IF od.mField = NullField THEN TRUE
    ELSE SoftPtInBounds(od, nd.mMin) /\ SoftPtInBounds(od, nd.mMax)

\* An AddField that fills one slot more than the array has.
AddFieldOneMore(od, nd) ==
    IF FieldInField(od, nd) /\ od.mNSubField <= kNSub
    THEN [ok |-> TRUE,
          od |-> [od EXCEPT !.mSubField = Append(@, nd),
                            !.mNSubField = @ + 1]]
    ELSE [ok |-> FALSE, od |-> od]

\* The result and the parent as the call leaves it.
AddField(od, nd) ==
    IF FieldInField(od, nd)
    THEN IF od.mNSubField < kNSub
         THEN [ok |-> TRUE,
               od |-> [od EXCEPT !.mSubField = Append(@, nd),
                                 !.mNSubField = @ + 1]]
         ELSE [ok |-> FALSE, od |-> od]
    ELSE [ok |-> FALSE, od |-> od]

-----------------------------------------------------------------------------
(* Point queries.  A query's answer is either "not found" or the           *)
(* interpolation of one node's own samples: interp names the node handed   *)
(* to Get3DEAtPoint / GetAxEAtPoint, whose samples (dp.mField) are read.   *)

NoNode == Empty(kCD3Error, EmptyBox)
NotFoundE == [interp |-> FALSE, dp |-> NoNode]

\* Both interpolators refuse a coordinate outside the node's box
\* (CD3BoundsCheck is defined); inside it they read dp's samples.
Get3DEAtPoint(dp, coord) ==
    IF PtInBounds(dp, coord) THEN [interp |-> TRUE, dp |-> dp] ELSE NotFoundE

GetAxEAtPoint(dp, coord) ==
    IF PtInBounds(dp, coord) THEN [interp |-> TRUE, dp |-> dp] ELSE NotFoundE

RECURSIVE CD3GetEAtPoint(_, _)
RECURSIVE SearchDaughtersE(_, _, _)

\* The loop over the daughters from index i on, then the node itself.
SearchDaughtersE(dp, i, coord) ==
    IF i < dp.mNSubField
    THEN IF PtInBounds(dp.mSubField[i + 1], coord)
         THEN CD3GetEAtPoint(dp.mSubField[i + 1], coord)
         ELSE SearchDaughtersE(dp, i + 1, coord)
    ELSE IF PtInBounds(dp, coord)
         THEN IF dp.mType = kCD3Data2
              THEN GetAxEAtPoint(dp, coord)
              ELSE Get3DEAtPoint(dp, coord)
         ELSE NotFoundE

CD3GetEAtPoint(dp, coord) ==
    IF dp.mType > 1 THEN NotFoundE ELSE SearchDaughtersE(dp, 0, coord)

RECURSIVE SearchDaughtersName(_, _, _)
SearchDaughtersName(dp, i, coord) ==
    IF i < dp.mNSubField
    THEN IF PtInBounds(dp.mSubField[i + 1], coord)
         THEN dp.mSubField[i + 1].mFieldName
         ELSE SearchDaughtersName(dp, i + 1, coord)
    ELSE IF PtInBounds(dp, coord) THEN dp.mFieldName ELSE "No field found"

\* A name lookup that tries the node itself before its daughters.
NameSelfFirst(dp, coord) ==
    IF dp.mType > 1 THEN "Invalid field type"
    ELSE IF PtInBounds(dp, coord) THEN dp.mFieldName
    ELSE SearchDaughtersName(dp, 0, coord)

CD3GetNameAtPoint(dp, coord) ==
    IF dp.mType > 1 THEN "Invalid field type"
    ELSE SearchDaughtersName(dp, 0, coord)

-----------------------------------------------------------------------------
(* The descriptor parser.  One action reads one line: its verb is the      *)
(* action, its name (or "" for none) the parameter; rd says whether the    *)
(* named binary file can be opened and read by CD3ReadBinary.              *)
(* A frame of stack is one active ParseCField call: the name it must be    *)
(* closed with and the CD3Data it fills.  The outermost call fills the     *)
(* caller's root through its pointer, so root always equals that frame's   *)
(* dp; a nested call fills the struct its parent malloc'ed.                *)
(* The descriptors enumerated hold no unnamed cfield inside a cfield (its  *)
(* struct is never initialised), no empty line inside a cfield and no      *)
(* "fields" line without a path (both hand a null pointer to the C         *)
(* library).                                                               *)

\* ParseField: CD3ReadBinary fills dp from the file and resets its child
\* count; the name becomes the provenance name.
ParseField(dp, name, rd) ==
    IF name = "" \/ ~rd
    THEN [ok |-> FALSE, dp |-> dp]
    ELSE [ok |-> TRUE, dp |-> Loaded(name, FileType(name), FileBox(name))]

Clean == [mismatch |-> FALSE, openFail |-> FALSE]
NoQuery == [asked |-> FALSE, coord |-> <<0, 0, 0>>, E |-> NotFoundE, name |-> ""]

Reading == pres = "run" /\ nread < MaxLines
Depth == Len(stack)
Top == stack[Depth]
Pop == SubSeq(stack, 1, Depth - 1)
RootOf(stk) == IF Len(stk) > 0 THEN stk[1].dp ELSE root

\* The ParseCField call on top of the stack returns false.  Its caller is
\* ParseFieldSet (which then fails) or an enclosing ParseCField, which only
\* tests the result before AddField and goes on reading.
ReturnFalse ==
    IF Depth = 1
    THEN /\ pres' = "fail"
         /\ stack' = <<>>
    ELSE /\ pres' = pres
         /\ stack' = Pop

\* ---- ParseFieldSet's loop (no ParseCField active)

PFS_eof ==
    /\ pres = "run" /\ Depth = 0
    /\ pres' = "ok"
    /\ UNCHANGED <<root, stack, nread, seen, q>>
    /\ UNCHANGED notTree

PFS_blank ==
    /\ Reading /\ Depth = 0
    /\ nread' = nread + 1
    /\ pres' = "ok"
    /\ UNCHANGED <<root, stack, seen, q>>
    /\ UNCHANGED notTree

PFS_fields ==
    /\ Reading /\ Depth = 0
    /\ nread' = nread + 1
    /\ UNCHANGED <<root, stack, pres, seen, q>>
    /\ UNCHANGED notTree

PFS_cfield(name, rd) ==
    /\ Reading /\ Depth = 0
    /\ nread' = nread + 1
    /\ LET r == ParseField(root, name, rd) IN
       IF name = ""
       THEN /\ stack' = <<[cname |-> "", dp |-> root]>>
            /\ UNCHANGED <<pres, seen>>
       ELSE IF r.ok
            THEN /\ stack' = <<[cname |-> name, dp |-> r.dp]>>
                 /\ UNCHANGED <<pres, seen>>
            ELSE /\ pres' = "fail"
                 /\ seen' = [seen EXCEPT !.openFail = TRUE]
                 /\ UNCHANGED stack
    /\ root' = RootOf(stack')
    /\ UNCHANGED q
    /\ UNCHANGED notTree

PFS_field(name, rd) ==
    /\ Reading /\ Depth = 0
    /\ nread' = nread + 1
    /\ LET r == ParseField(root, name, rd) IN
       IF r.ok
       THEN /\ root' = r.dp
            /\ UNCHANGED <<pres, seen>>
       ELSE /\ pres' = "fail"
            /\ seen' = [seen EXCEPT !.openFail = (name # "")]
            /\ UNCHANGED root
    /\ UNCHANGED <<stack, q>>
    /\ UNCHANGED notTree

PFS_other ==
    /\ Reading /\ Depth = 0
    /\ nread' = nread + 1
    /\ pres' = "fail"
    /\ UNCHANGED <<root, stack, seen, q>>
    /\ UNCHANGED notTree

\* ---- ParseCField's loop (the call on top of the stack)

PCF_eof ==
    /\ pres = "run" /\ Depth > 0
    /\ pres' = "fail"
    /\ stack' = <<>>
    /\ UNCHANGED <<root, nread, seen, q>>
    /\ UNCHANGED notTree

PCF_cfield(name, rd) ==
    /\ Reading /\ Depth > 0
    /\ name # ""
    /\ nread' = nread + 1
    /\ LET r == ParseField(NoNode, name, rd) IN
       IF r.ok
       THEN /\ stack' = Append(stack, [cname |-> name, dp |-> r.dp])
            /\ UNCHANGED seen
       ELSE /\ seen' = [seen EXCEPT !.openFail = TRUE]
            /\ UNCHANGED stack
    /\ UNCHANGED <<root, pres, q>>
    /\ UNCHANGED notTree

PCF_field(name, rd) ==
    /\ Reading /\ Depth > 0
    /\ nread' = nread + 1
    /\ LET r == ParseField(NoNode, name, rd) IN
       IF name = ""
       THEN ReturnFalse /\ UNCHANGED seen
       ELSE IF r.ok
            THEN /\ stack' = [stack EXCEPT ![Depth].dp = AddField(@, r.dp).od]
                 /\ UNCHANGED <<pres, seen>>
            ELSE /\ seen' = [seen EXCEPT !.openFail = TRUE]
                 /\ UNCHANGED <<stack, pres>>
    /\ root' = RootOf(stack')
    /\ UNCHANGED q
    /\ UNCHANGED notTree

PCF_end(ename) ==
    /\ Reading /\ Depth > 0
    /\ nread' = nread + 1
    /\ IF ename # Top.cname
       THEN /\ ReturnFalse
            /\ seen' = [seen EXCEPT !.mismatch = TRUE]
       ELSE /\ stack' = IF Depth = 1 THEN <<>>
                        ELSE [Pop EXCEPT
                                ![Depth - 1].dp = AddField(@, Top.dp).od]
            /\ UNCHANGED <<pres, seen>>
    /\ root' = RootOf(stack')
    /\ UNCHANGED q
    /\ UNCHANGED notTree

PCF_other ==
    /\ Reading /\ Depth > 0
    /\ nread' = nread + 1
    /\ ReturnFalse
    /\ UNCHANGED <<root, seen, q>>
    /\ UNCHANGED notTree

\* ---- a point query on the tree ParseFieldSet built

Query(coord) ==
    /\ pres = "ok"
    /\ q' = [asked |-> TRUE, coord |-> coord,
             E |-> CD3GetEAtPoint(root, coord),
             name |-> CD3GetNameAtPoint(root, coord)]
    /\ UNCHANGED <<root, stack, pres, nread, seen>>
    /\ UNCHANGED notTree

-----------------------------------------------------------------------------
(* Specification Spec: ParseFieldSet reads a descriptor of at most         *)
(* MaxLines lines into a root the caller initialised, then the finished    *)
(* tree is queried.                                                        *)

NamesOrNone == Names \cup {""}

TreeIdle ==
    /\ root \in RootInits
    /\ stack = <<>>
    /\ pres = "run"
    /\ nread = 0
    /\ seen = Clean
    /\ q = NoQuery

NoCall == [called |-> FALSE, od |-> NoNode, nd |-> NoNode, ok |-> FALSE]

AddIdle ==
    /\ par = NoNode
    /\ last = NoCall
    /\ nAdd = 0

NoTarget == [impl |-> "none"]
SmIdle == [phase |-> "off"]

SmoothOff ==
    /\ tgt = NoTarget
    /\ a = <<>>
    /\ a0 = <<>>
    /\ ptype = <<>>
    /\ sm = SmIdle

\* no binary file is written or read
BinOff == bin = [phase |-> "off"]
EvOff == ev = [phase |-> "off"]

Init == TreeIdle /\ AddIdle /\ SmoothOff /\ BinOff /\ EvOff

Next ==
    \/ PFS_eof
    \/ PFS_blank
    \/ PFS_fields
    \/ \E name \in NamesOrNone, rd \in BOOLEAN : PFS_cfield(name, rd)
    \/ \E name \in NamesOrNone, rd \in BOOLEAN : PFS_field(name, rd)
    \/ PFS_other
    \/ PCF_eof
    \/ \E name \in Names, rd \in BOOLEAN : PCF_cfield(name, rd)
    \/ \E name \in NamesOrNone, rd \in BOOLEAN : PCF_field(name, rd)
    \/ \E ename \in NamesOrNone : PCF_end(ename)
    \/ PCF_other
    \/ \E coord \in QueryCoords : Query(coord)

Spec == Init /\ [][Next]_vars

-----------------------------------------------------------------------------
(* Properties of the point queries and of the parse (specification Spec)   *)

OwnInterpolation(dp, coord) ==
    IF dp.mType = kCD3Data2 THEN GetAxEAtPoint(dp, coord)
    ELSE Get3DEAtPoint(dp, coord)

\* The dispatch as the documentation words it: the first child whose box
\* contains the point answers, recursively; with no such child a node that
\* carries samples answers itself; otherwise nothing is found.
RECURSIVE ValueAtAsStated(_, _)
RECURSIVE FirstChildAsStated(_, _, _)
FirstChildAsStated(dp, i, coord) ==
    IF i < dp.mNSubField
    THEN IF PtInBounds(dp.mSubField[i + 1], coord)
         THEN ValueAtAsStated(dp.mSubField[i + 1], coord)
         ELSE FirstChildAsStated(dp, i + 1, coord)
    ELSE IF dp.mField # NullField THEN OwnInterpolation(dp, coord)
         ELSE NotFoundE

ValueAtAsStated(dp, coord) == FirstChildAsStated(dp, 0, coord)

\* C1: for every tree and every coordinate CD3GetEAtPoint answers with the
\* first child (in insertion order) whose closed box contains the point,
\* queried recursively; with no such child and samples of its own, with its
\* own interpolation; otherwise with "not found".
C1_FirstChildThenSelf ==
    q.asked => q.E = ValueAtAsStated(root, q.coord)

NotFoundNames == {"No field found", "Invalid field type"}

\* C2: for every tree of any depth and every coordinate the name
\* CD3GetNameAtPoint returns is the name of the node whose samples
\* CD3GetEAtPoint interpolates, and it reports no field exactly when
\* CD3GetEAtPoint finds none.
C2_NameOfAnsweringNode ==
    q.asked =>
        /\ q.E.interp => q.name = q.E.dp.mFieldName
        /\ ~q.E.interp <=> q.name \in NotFoundNames

StrictlyInside(nd, od) ==
    \A i \in Axes : od.mMin[i] < nd.mMin[i] /\ nd.mMax[i] < od.mMax[i]

OneChildInside ==
    /\ root.mField # NullField
    /\ root.mNSubField = 1
    /\ StrictlyInside(root.mSubField[1], root)

\* C3: on a parent field with exactly one child strictly inside it,
\* CD3GetNameAtPoint returns the child's name for every point in the child's
\* box and the parent's name for every point in the parent's box outside
\* the child's.
C3_ChildThenParentName ==
    (q.asked /\ OneChildInside) =>
        IF PtInBounds(root.mSubField[1], q.coord)
        THEN q.name = root.mSubField[1].mFieldName
        ELSE PtInBounds(root, q.coord) => q.name = root.mFieldName

C3_Witness ==
    /\ q.asked /\ OneChildInside
    /\ PtInBounds(root.mSubField[1], q.coord)
    /\ q.name = root.mSubField[1].mFieldName
    /\ q.name # root.mFieldName

\* C8: the parse fails as a whole whenever a group at any depth was closed
\* by an end line whose name differs from its cfield line's: ParseFieldSet
\* never returns true for a descriptor in which that happened.
C8_MismatchFailsParse ==
    seen.mismatch => pres # "ok"

\* C22: the parse fails as a whole whenever the binary file named by a
\* field or cfield line, at any nesting depth, could not be opened or read:
\* ParseFieldSet never returns true once ParseField has failed on a file.
C22_OpenFailureFailsParse ==
    (pres = "ok") => ~seen.openFail

-----------------------------------------------------------------------------
(* Specification SpecAdd: AddField calls on one parent, as ParseCField     *)
(* makes them for the field lines of one cfield block.  The parent is a    *)
(* field with samples or a caller-initialised one without, and already     *)
(* holds Prefill children (a block of that many "field B" lines).          *)

ParentP == Cube(0, 8*U)
ParentQ == Cube(H, 2*U)

\* The sides of a child's box are shifted against the base box by these
\* amounts, one axis at a time: 0.8e-6 and 1.5e-6 below, 5e-6 and 1e-5
\* above, or a quarter inwards on both sides.
Shifts ==
    { <<0, 0>>, <<-80, 0>>, <<-150, 0>>, <<0, 5*Micro>>, <<0, 10*Micro>>,
      <<H \div 2, -(H \div 2)>> }

Shifted(box, i, sh) ==
    Box([box.mMin EXCEPT ![i] = @ + sh[1]], [box.mMax EXCEPT ![i] = @ + sh[2]])

ChildBoxes ==
    { Shifted(b, i, sh) : b \in {ParentP, ParentQ}, i \in Axes, sh \in Shifts }

Children == { Loaded("A", kCD3Data3, b) : b \in ChildBoxes }

RECURSIVE Filled(_, _)
Filled(od, n) ==
    IF n = 0 THEN od
    ELSE Filled(AddField(od, Loaded("B", FileType("B"), FileBox("B"))).od, n - 1)

Prefills == {0, kNSub - 1}

AddParents ==
    { Filled(od, n) :
        od \in { Loaded("P", kCD3Data3, ParentP), Loaded("Q", kCD3Data3, ParentQ),
                 Empty(kCD3Data3, ZeroBox), Empty(kCD3Error, EmptyBox) },
        n \in Prefills }

TreeOff ==
    /\ root = NoNode
    /\ stack = <<>>
    /\ pres = "off"
    /\ nread = 0
    /\ seen = Clean
    /\ q = NoQuery

InitAdd ==
    /\ par \in AddParents
    /\ last = NoCall
    /\ nAdd = 0
    /\ TreeOff
    /\ SmoothOff
    /\ BinOff
    /\ EvOff

DoAddField(nd) ==
    /\ nAdd < MaxAdds
    /\ nAdd' = nAdd + 1
    /\ par' = AddField(par, nd).od
    /\ last' = [called |-> TRUE, od |-> par, nd |-> nd,
                ok |-> AddField(par, nd).ok]
    /\ UNCHANGED notAdd

NextAdd == \E nd \in Children : DoAddField(nd)

SpecAdd == InitAdd /\ [][NextAdd]_vars

-----------------------------------------------------------------------------
(* Properties of AddField (specification SpecAdd).  last holds the call    *)
(* just made: the parent before it, the child and the result; par is the   *)
(* parent after it.                                                        *)

\* The tolerance as documented: the larger of 1e-6 and 1e-6 * |c|.
StatedEps(c) ==
    IF fabs(c) \div PerMillion > Micro THEN fabs(c) \div PerMillion ELSE Micro

Corners(nd, i) == {nd.mMin[i], nd.mMax[i]}

\* Some corner of nd lies outside od on some axis by more than tol allows.
ExceedsBy(od, nd, tol(_)) ==
    \E i \in Axes : \E c \in Corners(nd, i) :
        (od.mMin[i] - c) > tol(c) \/ (c - od.mMax[i]) > tol(c)

\* Every corner of nd lies in od's closed box: nd matches od, touches its
\* sides from inside, or lies inside it.
TouchesOrInside(od, nd) == PtInBounds(od, nd.mMin) /\ PtInBounds(od, nd.mMax)

HasSamples(dp) == dp.mField # NullField
Rejected == ~last.ok /\ par = last.od
Appended == last.ok /\ par.mSubField = Append(last.od.mSubField, last.nd)

\* C4 (as amended): AddField into a parent with samples rejects, leaving
\* the parent unchanged, every child that exceeds the parent's box on some
\* axis by more than the soft tolerance, and accepts every child whose box
\* matches or touches the parent's from inside, provided the parent holds
\* fewer than kNSub children.
C4_RejectBeyondAcceptTouching ==
    (last.called /\ HasSamples(last.od)) =>
        /\ ExceedsBy(last.od, last.nd, StatedEps) => Rejected
        /\ (TouchesOrInside(last.od, last.nd) /\ last.od.mNSubField < kNSub)
              => Appended

C4_Witness ==
    /\ last.called /\ HasSamples(last.od)
    /\ last.nd.mMax[3] = last.od.mMax[3] + 10 * Micro
    /\ ExceedsBy(last.od, last.nd, StatedEps)
    /\ Rejected

\* C4 as stated: ... and accepts every child whose box matches or touches
\* the parent's (no proviso on the number of children held).
C4_AsStated ==
    (last.called /\ HasSamples(last.od)) =>
        /\ ExceedsBy(last.od, last.nd, StatedEps) => Rejected
        /\ TouchesOrInside(last.od, last.nd) => Appended

\* C5: the tolerance AddField's containment test applies to a child corner
\* coordinate c is the larger of 1e-6 and 1e-6 * |c|: a child is kept out
\* of a parent with samples and a free slot exactly when a corner exceeds
\* the parent's box by more than that.
C5_ToleranceLargerOf ==
    (last.called /\ HasSamples(last.od) /\ last.od.mNSubField < kNSub) =>
        (last.ok <=> ~ExceedsBy(last.od, last.nd, StatedEps))

\* C6: a node never holds more than kNSub children; AddField on a node
\* that holds kNSub fails and leaves it unchanged; a successful AddField
\* appends the child after the children already held, in their order.
C6_AtMostkNSubInOrder ==
    /\ par.mNSubField <= kNSub
    /\ Len(par.mSubField) = par.mNSubField
    /\ last.called =>
        /\ last.od.mNSubField = kNSub => Rejected
        /\ last.ok => Appended /\ par.mNSubField = last.od.mNSubField + 1
        /\ ~last.ok => par = last.od

C6_Witness ==
    /\ last.called
    /\ last.od.mNSubField = kNSub
    /\ FieldInField(last.od, last.nd)
    /\ Rejected

\* C7 (as amended): AddField into a parent without samples that holds
\* fewer than kNSub children accepts the child whatever its box is.
C7_NoSamplesAccepts ==
    (last.called /\ ~HasSamples(last.od) /\ last.od.mNSubField < kNSub) =>
        Appended

C7_Witness ==
    /\ last.called /\ ~HasSamples(last.od)
    /\ ~SoftPtInBounds(last.od, last.nd.mMin)
    /\ Appended

\* C7 as stated: AddField into a parent without samples always accepts the
\* child.
C7_AsStated ==
    (last.called /\ ~HasSamples(last.od)) => last.ok

-----------------------------------------------------------------------------
(* The arithmetic of the C type double (IEEE 754 binary64, round to        *)
(* nearest, ties to even) for the values the smoother meets: zero and the  *)
(* normal numbers.  A natural number is a sequence of limbs, least         *)
(* significant first, each in 0..Limb-1, with no zero limb at the top; a   *)
(* double is [s, m, e] with value s * m * 2^e, where m is <<>> for zero    *)
(* and has exactly Precision bits otherwise.  Exponent overflow and        *)
(* underflow are out of reach of the values used and are not modelled.     *)

Limb == 2^15
Precision == 53

RECURSIVE BNorm(_)
BNorm(x) ==
    IF x = <<>> THEN x
    ELSE IF x[Len(x)] = 0 THEN BNorm(SubSeq(x, 1, Len(x) - 1)) ELSE x

BLimb(x, i) == IF i <= Len(x) THEN x[i] ELSE 0

RECURSIVE BAddFrom(_, _, _, _)
BAddFrom(x, y, i, c) ==
    IF i > Len(x) /\ i > Len(y) THEN (IF c = 0 THEN <<>> ELSE <<c>>)
    ELSE LET s == BLimb(x, i) + BLimb(y, i) + c
         IN  <<s % Limb>> \o BAddFrom(x, y, i + 1, s \div Limb)
BAdd(x, y) == BAddFrom(x, y, 1, 0)

RECURSIVE BSubFrom(_, _, _, _)
BSubFrom(x, y, i, b) ==
    IF i > Len(x) THEN <<>>
    ELSE LET s == BLimb(x, i) - BLimb(y, i) - b
         IN  <<(s + Limb) % Limb>>
                \o BSubFrom(x, y, i + 1, IF s < 0 THEN 1 ELSE 0)
\* x - y for x >= y
BSub(x, y) == BNorm(BSubFrom(x, y, 1, 0))

RECURSIVE BLessAt(_, _, _)
BLessAt(x, y, i) ==
    IF i = 0 THEN FALSE
    ELSE IF x[i] # y[i] THEN x[i] < y[i] ELSE BLessAt(x, y, i - 1)
BLess(x, y) ==
    IF Len(x) # Len(y) THEN Len(x) < Len(y) ELSE BLessAt(x, y, Len(x))

RECURSIVE BMulFrom(_, _, _, _)
BMulFrom(x, k, i, c) ==
    IF i > Len(x) THEN (IF c = 0 THEN <<>> ELSE <<c>>)
    ELSE LET s == x[i] * k + c
         IN  <<s % Limb>> \o BMulFrom(x, k, i + 1, s \div Limb)
\* x * k for a single limb k
BMulSmall(x, k) == IF k = 0 THEN <<>> ELSE BMulFrom(x, k, 1, 0)

BZeros(n) == [i \in 1..n |-> 0]
BShiftLimbs(x, n) == IF x = <<>> THEN x ELSE BZeros(n) \o x

RECURSIVE BMulAt(_, _, _)
BMulAt(x, y, i) ==
    IF i > Len(y) THEN <<>>
    ELSE BAdd(BShiftLimbs(BMulSmall(x, y[i]), i - 1), BMulAt(x, y, i + 1))
BMul(x, y) == BMulAt(x, y, 1)

\* x * 2^n
BShl(x, n) == BShiftLimbs(BMulSmall(x, 2^(n % 15)), n \div 15)

RECURSIVE BDivFrom(_, _, _, _)
BDivFrom(x, k, i, r) ==
    IF i = 0 THEN <<>>
    ELSE LET s == r * Limb + x[i]
         IN  BDivFrom(x, k, i - 1, s % k) \o <<s \div k>>
\* floor(x / 2^n)
BShr(x, n) ==
    LET y == IF n \div 15 >= Len(x) THEN <<>>
             ELSE SubSeq(x, n \div 15 + 1, Len(x))
    IN  BNorm(BDivFrom(y, 2^(n % 15), Len(y), 0))

BitLen(x) ==
    IF x = <<>> THEN 0
    ELSE 15 * (Len(x) - 1)
            + (CHOOSE k \in 1..15 : 2^(k-1) <= x[Len(x)] /\ x[Len(x)] < 2^k)

\* bit i of x, the lowest being bit 1
BBit(x, i) == (BLimb(x, (i - 1) \div 15 + 1) \div 2^((i - 1) % 15)) % 2

\* floor(r / d) for r < d * Limb, when the top limb of d is at least
\* Limb / 2: the quotient of the leading limbs is at most 2 too large.
BDigitFrom(r, d, hi) ==
    IF ~BLess(r, BMulSmall(d, hi)) THEN hi
    ELSE IF ~BLess(r, BMulSmall(d, hi - 1)) THEN hi - 1
    ELSE hi - 2
BDigitEst(r, d, n) == (BLimb(r, n + 1) * Limb + BLimb(r, n)) \div d[n]
BMin(x, y) == IF x < y THEN x ELSE y
BDigit(r, d) == BDigitFrom(r, d, BMin(BDigitEst(r, d, Len(d)), Limb - 1))

\* Long division, limb i of n downwards: <<quotient, remainder>>.
RECURSIVE BDivFromTop(_, _, _, _, _)
RECURSIVE BDivStep(_, _, _, _, _)
RECURSIVE BDivTake(_, _, _, _, _, _)
BDivFromTop(n, d, i, r, quot) ==
    IF i = 0 THEN <<BNorm(quot), r>>
    ELSE BDivStep(n, d, i, BNorm(<<n[i]>> \o r), quot)
BDivStep(n, d, i, r2, quot) ==
    IF BLess(r2, d)
    THEN BDivFromTop(n, d, i - 1, r2, <<0>> \o quot)
    ELSE BDivTake(n, d, i, r2, quot, BDigit(r2, d))
BDivTake(n, d, i, r2, quot, digit) ==
    BDivFromTop(n, d, i - 1, BSub(r2, BMulSmall(d, digit)), <<digit>> \o quot)

BDivExact(qr) == <<qr[1], qr[2] = <<>>>>
BDivNormal(n, d) == BDivExact(BDivFromTop(n, d, Len(n), <<>>, <<>>))
BDivShift(d) == (15 - (BitLen(d) % 15)) % 15
BDivBy(n, d, k) == BDivNormal(BShl(n, k), BShl(d, k))
\* <<floor(n / d), whether d divides n>> for d > 0
BDivMod(n, d) == BDivBy(n, d, BDivShift(d))

DZero == [s |-> 1, m |-> <<>>, e |-> 0]

\* The double nearest to s * (M + t) * 2^E, where 0 < t < 1 when sticky
\* and t = 0 otherwise; sticky only with more than Precision + 1 bits in M.
\* round to nearest, ties to even: quo is the kept part, rem the dropped
DRoundUp(quo, rem, half, sticky) ==
    \/ BLess(half, rem)
    \/ rem = half /\ (sticky \/ BBit(quo, 1) = 1)
DRenorm(s, m1, e) ==
    IF BitLen(m1) > Precision
    THEN [s |-> s, m |-> BShr(m1, 1), e |-> e + 1]
    ELSE [s |-> s, m |-> m1, e |-> e]
DRoundKept(s, M, E, sticky, k, quo) ==
    DRenorm(s, IF DRoundUp(quo, BSub(M, BShl(quo, k)), BShl(<<1>>, k - 1),
                           sticky)
               THEN BAdd(quo, <<1>>) ELSE quo, E + k)
DRoundBy(s, M, E, sticky, k) ==
    IF k <= 0 THEN [s |-> s, m |-> BShl(M, 0 - k), e |-> E + k]
    ELSE DRoundKept(s, M, E, sticky, k, BShr(M, k))
DRound(s, M, E, sticky) ==
    IF M = <<>> THEN DZero
    ELSE DRoundBy(s, M, E, sticky, BitLen(M) - Precision)

\* the int k converted to double
DInt(k) ==
    DRound(IF k < 0 THEN 0 - 1 ELSE 1,
           BNorm(<<fabs(k) % Limb, (fabs(k) \div Limb) % Limb,
                   fabs(k) \div (Limb * Limb)>>), 0, FALSE)

DNeg(x) == [x EXCEPT !.s = 0 - @]
DMul(x, y) == DRound(x.s * y.s, BMul(x.m, y.m), x.e + y.e, FALSE)

\* x / y for y # 0
DDivRound(x, y, qr) ==
    DRound(x.s * y.s, qr[1], x.e - y.e - (Precision + 3), ~qr[2])
DDiv(x, y) == DDivRound(x, y, BDivMod(BShl(x.m, Precision + 3), y.m))

\* X and Y are the magnitudes of x and y in units of 2^e
DAddAligned(x, y, e, X, Y) ==
    DRound(IF x.s = y.s \/ ~BLess(X, Y) THEN x.s ELSE y.s,
           IF x.s = y.s THEN BAdd(X, Y)
           ELSE IF BLess(X, Y) THEN BSub(Y, X) ELSE BSub(X, Y),
           e, FALSE)
DAddAt(x, y, e) == DAddAligned(x, y, e, BShl(x.m, x.e - e), BShl(y.m, y.e - e))
DAdd(x, y) ==
    IF x.m = <<>> THEN y
    ELSE IF y.m = <<>> THEN x
    ELSE DAddAt(x, y, BMin(x.e, y.e))
DSub(x, y) == DAdd(x, DNeg(y))

\* x < y in C
DLess(x, y) == DSub(x, y).m # <<>> /\ DSub(x, y).s < 0

\* the natural number x as an int, for x < 2^31
RECURSIVE BToInt(_, _)
BToInt(x, i) == IF i > Len(x) THEN 0 ELSE x[i] + Limb * BToInt(x, i + 1)

\* the conversion of a double to int: the fraction is discarded.  Only for
\* magnitudes below 2^31; beyond that C leaves the conversion undefined.
DTruncMag(x) == IF x.e >= 0 THEN BShl(x.m, x.e) ELSE BShr(x.m, 0 - x.e)
DTrunc(x) == x.s * BToInt(DTruncMag(x), 1)

\* floor(sqrt(M)) by Newton's iteration downwards from x >= sqrt(M)
RECURSIVE BSqrtFrom(_, _)
RECURSIVE BSqrtNext(_, _, _)
BSqrtFrom(M, x) == BSqrtNext(M, x, BShr(BAdd(x, BDivMod(M, x)[1]), 1))
BSqrtNext(M, x, y) == IF BLess(y, x) THEN BSqrtFrom(M, y) ELSE x
BSqrt(M) == BSqrtFrom(M, BShl(<<1>>, (BitLen(M) + 1) \div 2))

\* sqrt(x) for x >= 0: the mantissa is scaled by 2^k, k making the exponent
\* even, so that its root has Precision + 2 bits
DSqrtRound(M, E, r) == DRound(1, r, E \div 2, BMul(r, r) # M)
DSqrtOf(M, E) == DSqrtRound(M, E, BSqrt(M))
DSqrtBy(x, k) == DSqrtOf(BShl(x.m, k), x.e - k)
DSqrt(x) ==
    IF x.m = <<>> THEN DZero ELSE DSqrtBy(x, Precision + 3 + (x.e % 2))

-----------------------------------------------------------------------------
(* The Gauss-Seidel smoother.  A sample is a double; grid coordinates and  *)
(* spacings are whole numbers, which doubles hold exactly.  Indices count  *)
(* from 0 as in the code: point (ix, iy, iz) has the point index           *)
(* rIndex = (iz * ny + iy) * nx + ix and its component comp is the sample  *)
(* 3 * rIndex + comp.                                                      *)

NPoint(nVal) == nVal[1] * nVal[2] * nVal[3]
Ix(nVal, r) == r % nVal[1]
Iy(nVal, r) == (r \div nVal[1]) % nVal[2]
Iz(nVal, r) == r \div (nVal[1] * nVal[2])

\* The entries the three loop nests of NewTypeArray / PointArray::SetSize
\* write 0 to: the two z end planes, the two y end planes, the two x end
\* planes.
ZEnds(nVal) ==
    {((nVal[3] - 1) * nVal[2] + iy) * nVal[1] + ix :
        iy \in 0..(nVal[2] - 1), ix \in 0..(nVal[1] - 1)}
    \cup {(0 * nVal[2] + iy) * nVal[1] + ix :
        iy \in 0..(nVal[2] - 1), ix \in 0..(nVal[1] - 1)}
YEnds(nVal) ==
    {(iz * nVal[2] + 0) * nVal[1] + ix :
        iz \in 0..(nVal[3] - 1), ix \in 0..(nVal[1] - 1)}
    \cup {(iz * nVal[2] + (nVal[2] - 1)) * nVal[1] + ix :
        iz \in 0..(nVal[3] - 1), ix \in 0..(nVal[1] - 1)}
XEnds(nVal) ==
    {(iz * nVal[2] + iy) * nVal[1] + 0 :
        iz \in 0..(nVal[3] - 1), iy \in 0..(nVal[2] - 1)}
    \cup {(iz * nVal[2] + iy) * nVal[1] + (nVal[1] - 1) :
        iz \in 0..(nVal[3] - 1), iy \in 0..(nVal[2] - 1)}

\* A type array whose x end planes are left as memset has set them.
NewTypeArrayNoX(nVal) ==
    [r \in 0..(NPoint(nVal) - 1) |->
        IF r \in ZEnds(nVal) \cup YEnds(nVal) THEN 0 ELSE 1]
\* NewTypeArray / PointArray::SetSize: everything set to 1 (free), then
\* the end planes to 0 (fixed).
NewTypeArray(nVal) ==
    [r \in 0..(NPoint(nVal) - 1) |->
        IF r \in ZEnds(nVal) \cup YEnds(nVal) \cup XEnds(nVal) THEN 0 ELSE 1]

\* ---- geometry (CD3List.c, Geometries.c)

\* ICylinderInit: axis is 0, 1 or 2; the index triple is kept 1-based here.
ICylinderInit(axis, args) ==
    [mMin |-> <<args[1], args[2], args[3]>>,
     mMax |-> <<args[4], args[5], args[6]>>,
     mIdx0 |-> CASE axis = 0 -> 2 [] axis = 1 -> 3 [] OTHER -> 1,
     mIdx1 |-> CASE axis = 0 -> 3 [] axis = 1 -> 1 [] OTHER -> 2,
     mIdx2 |-> CASE axis = 0 -> 1 [] axis = 1 -> 2 [] OTHER -> 3,
     mR1Squared |-> args[7] * args[7]]

ICylinderPointInNoTol(g, p, tol) ==
    IF p[g.mIdx2] < g.mMin[g.mIdx2] \/ p[g.mIdx2] > g.mMax[g.mIdx2]
    THEN FALSE
    ELSE LET dx0 == p[g.mIdx0] - g.mMin[g.mIdx0]
             dx1 == p[g.mIdx1] - g.mMin[g.mIdx1]
         IN  dx0 * dx0 + dx1 * dx1 < g.mR1Squared
ICylinderPointIn(g, p, tol) ==
    IF p[g.mIdx2] < g.mMin[g.mIdx2] \/ p[g.mIdx2] > g.mMax[g.mIdx2]
    THEN FALSE
    ELSE LET dx0 == p[g.mIdx0] - g.mMin[g.mIdx0]
             dx1 == p[g.mIdx1] - g.mMin[g.mIdx1]
         IN  dx0 * dx0 + dx1 * dx1 < g.mR1Squared + tol * tol

\* BuildICylinder: the list with the new cylinder in front, or the list as
\* it was when the arguments are refused (its result is not looked at).
BuildICylinder(mGList, mArg) ==
    LET active == {i \in 1..3 : mArg[i + 3] - mArg[i] > 0}
    IN  IF \E i \in 1..3 : mArg[i + 3] - mArg[i] < 0 THEN mGList
        ELSE IF Cardinality(active) # 1 THEN mGList
        ELSE <<ICylinderInit((CHOOSE i \in active : TRUE) - 1, mArg)>>
                \o mGList

\* CD3ListReadGeom on a file: can it be opened, does it start with BCGeom,
\* and the argument lists of its icyl lines.
RECURSIVE ReadGeomLines(_, _)
ReadGeomLines(mGList, lines) ==
    IF lines = <<>> THEN [ok |-> TRUE, mGList |-> mGList]
    ELSE IF Len(Head(lines)) # 8 THEN [ok |-> FALSE, mGList |-> mGList]
    ELSE ReadGeomLines(BuildICylinder(mGList, Head(lines)), Tail(lines))

CD3ListReadGeom(file) ==
    IF ~file.opens \/ ~file.header THEN [ok |-> FALSE, mGList |-> <<>>]
    ELSE ReadGeomLines(<<>>, file.icyl)

\* CD3ListPointIn as CD3Smoothable::AddGeometry calls it, with the
\* tolerance handed on to ICylinderPointIn.
CD3ListPointIn(mGList, p, tol) ==
    \E k \in 1..Len(mGList) : ICylinderPointIn(mGList[k], p, tol)

\* The real-space position of a grid point.
PointAt(d, r) ==
    <<d.mMin[1] + Ix(d.mNVal, r) * d.mDelta[1],
      d.mMin[2] + Iy(d.mNVal, r) * d.mDelta[2],
      d.mMin[3] + Iz(d.mNVal, r) * d.mDelta[3]>>

\* A loop that flips the type of the points inside the geometry.
MarkGeometryFlip(type, mGList, d) ==
    [r \in DOMAIN type |->
        IF CD3ListPointIn(mGList, PointAt(d, r), d.mDelta[1]) THEN 1 - type[r]
        ELSE type[r]]
\* The loop of CD3Smoothable::AddGeometry over all grid points.
MarkGeometry(type, mGList, d) ==
    [r \in DOMAIN type |->
        IF CD3ListPointIn(mGList, PointAt(d, r), d.mDelta[1]) THEN 0
        ELSE type[r]]

\* CD3ListAddGeomTo, which GSSmooth calls, walks the list and adds each
\* geometry; GSSmooth is given geometry files without icyl lines only, for
\* which the walk does nothing.
CD3ListAddGeomTo(mGList, type, d) == type

\* ---- the relaxation

\* Weights without the 2.0 in their divisors.
WeightsNoHalf(mDelta) ==
    LET delta(i) == DInt(mDelta[i])
        inv(i) == DDiv(DInt(1), DMul(delta(i), delta(i)))
        wa == DDiv(DInt(1), DAdd(DAdd(inv(1), inv(2)), inv(3)))
    IN  [i \in 1..3 |-> DDiv(wa, DMul(delta(i), delta(i)))]

\* wa, wx, wy, wz: the weights that compensate a non-isotropic grid.
Weights(mDelta) ==
    LET delta(i) == DInt(mDelta[i])
        inv(i) == DDiv(DInt(1), DMul(delta(i), delta(i)))
        wa == DDiv(DInt(1), DAdd(DAdd(inv(1), inv(2)), inv(3)))
    IN  [i \in 1..3 |->
            DDiv(wa, DMul(DMul(DInt(2), delta(i)), delta(i)))]

\* newVal for sample i: the weighted sum of its six neighbours, given
\* the weights w = <<wx, wy, wz>>.
NewVal(f, d, w, i) ==
    LET dx == 3
        dy == 3 * d.mNVal[1]
        dz == 3 * d.mNVal[1] * d.mNVal[2]
    IN  DAdd(DAdd(DMul(w[1], DAdd(f[i + dx], f[i - dx])),
                  DMul(w[2], DAdd(f[i + dy], f[i - dy]))),
             DMul(w[3], DAdd(f[i + dz], f[i - dz])))

\* The samples after the three components of point rIndex are replaced,
\* each by its newVal.
Relaxed(f, d, w, rIndex) ==
    [i \in DOMAIN f |->
        IF i \div 3 = rIndex THEN NewVal(f, d, w, i) ELSE f[i]]

\* err after terr * terr is added to it for the three components of
\* point rIndex.
ErrAfter(err, f, d, w, rIndex) ==
    LET sq(comp) ==
            LET terr == DSub(NewVal(f, d, w, 3 * rIndex + comp),
                             f[3 * rIndex + comp])
            IN  DMul(terr, terr)
    IN  DAdd(DAdd(DAdd(err, sq(0)), sq(1)), sq(2))

Interior(nVal, r) ==
    /\ 0 < Ix(nVal, r) /\ Ix(nVal, r) < nVal[1] - 1
    /\ 0 < Iy(nVal, r) /\ Iy(nVal, r) < nVal[2] - 1
    /\ 0 < Iz(nVal, r) /\ Iz(nVal, r) < nVal[3] - 1

\* A visit that relaxes every interior point, whatever its type.
SmoothPointAnyType(f, type, d, w, rIndex) ==
    IF Interior(d.mNVal, rIndex) THEN Relaxed(f, d, w, rIndex) ELSE f

\* A visit that gives every component of a free point the newVal of
\* component 0.
SmoothPointFirstComp(f, type, d, w, rIndex) ==
    IF type[rIndex] = 1
    THEN [i \in DOMAIN f |->
            IF i \div 3 = rIndex THEN NewVal(f, d, w, 3 * rIndex) ELSE f[i]]
    ELSE f

\* One visit of the red or black loop to point rIndex: a point of type 1
\* (free) is relaxed, a point of type 0 is passed over.
SmoothPoint(f, type, d, w, rIndex) ==
    IF type[rIndex] = 1 THEN Relaxed(f, d, w, rIndex) ELSE f

\* err after that visit.
SmoothPointErr(err, f, type, d, w, rIndex) ==
    IF type[rIndex] = 1 THEN ErrAfter(err, f, d, w, rIndex) ELSE err

\* idx starts at (idy + idz) & 1 in the red loops and at (idy + idz + 1) & 1
\* in the black ones, and steps by 2.
\* Loops that start every row of a colour at the same idx whatever its idz.
IsRedNoZ(nVal, r) == (Ix(nVal, r) + Iy(nVal, r)) % 2 = 0
IsRed(nVal, r) == (Ix(nVal, r) + Iy(nVal, r) + Iz(nVal, r)) % 2 = 0

\* The first point at or after from that the loops of this colour visit,
\* or NPoint when they are through.
FirstOf(nVal, red, from) ==
    LET S == {r \in from..(NPoint(nVal) - 1) : IsRed(nVal, r) = red}
    IN  IF S = {} THEN NPoint(nVal)
        ELSE CHOOSE r \in S : \A t \in S : r <= t

\* The points a pass relaxes, in the order of its visits: the free red
\* points, then the free black ones.
RECURSIVE Ascending(_)
Ascending(S) ==
    IF S = {} THEN <<>>
    ELSE LET r == CHOOSE t \in S : \A u \in S : t <= u
         IN  <<r>> \o Ascending(S \ {r})
Visits(nVal, type) ==
    Ascending({r \in DOMAIN type : type[r] = 1 /\ IsRed(nVal, r)})
        \o Ascending({r \in DOMAIN type : type[r] = 1 /\ ~IsRed(nVal, r)})

\* The samples after one whole pass.
RECURSIVE RelaxedAll(_, _, _, _)
RelaxedAll(f, d, w, visits) ==
    IF visits = <<>> THEN f
    ELSE RelaxedAll(Relaxed(f, d, w, Head(visits)), d, w, Tail(visits))
OnePass(f, type, d, w) == RelaxedAll(f, d, w, Visits(d.mNVal, type))

NoRet == 0 - 1

\* The state of a call after its checks: the weights are worked out, then
\* into the first red loop, or straight to the return when no pass is
\* asked for.
Enter(nPass) ==
    IF nPass > 0
    THEN [sm EXCEPT !.phase = "red", !.pass = 0, !.nPass = nPass,
                    !.r = FirstOf(tgt.mNVal, TRUE, 0), !.err = DZero,
                    !.w = Weights(tgt.mDelta), !.reds = 0, !.blacks = 0]
    ELSE [sm EXCEPT !.phase = "ret", !.nPass = nPass, !.ret = kCDNoErr,
                    !.w = Weights(tgt.mDelta), !.reds = 0, !.blacks = 0]

\* A refusal that smooths one pass all the same.
RefuseNot(code) == Enter(1)

\* The call returns code before it has touched anything.
Refuse(code) == [sm EXCEPT !.phase = "ret", !.ret = code]

GSSmooth(file, nPass, alloc) ==
    /\ sm.phase = "idle" /\ tgt.impl = "GSSmooth"
    /\ a0' = a
    /\ LET rd == CD3ListReadGeom(file) IN
       IF tgt.mNSubField > 0
       THEN sm' = Refuse(kCDNotLeaf) /\ UNCHANGED ptype
       ELSE IF tgt.mStride # 0
       THEN sm' = Refuse(kCDNot4Fold) /\ UNCHANGED ptype
       ELSE IF ~alloc
       THEN sm' = Refuse(kCDAllocFailed) /\ UNCHANGED ptype
       ELSE IF ~rd.ok
       THEN sm' = Refuse(kCDBadGeom) /\ ptype' = NewTypeArray(tgt.mNVal)
       ELSE /\ sm' = Enter(nPass)
            /\ ptype' = CD3ListAddGeomTo(rd.mGList, NewTypeArray(tgt.mNVal), tgt)
    /\ UNCHANGED <<tgt, a>>
    /\ UNCHANGED notSmooth

AddGeometry(file) ==
    /\ sm.phase = "idle" /\ tgt.impl = "CD3Smoothable"
    /\ sm.nGeom < MaxGeoms
    /\ LET rd == CD3ListReadGeom(file) IN
       IF rd.ok
       THEN /\ ptype' = MarkGeometry(ptype, rd.mGList, tgt)
            /\ sm' = [sm EXCEPT !.nGeom = @ + 1, !.geomRet = kCDNoErr]
       ELSE /\ ptype' = ptype
            /\ sm' = [sm EXCEPT !.nGeom = @ + 1, !.geomRet = kCDBadGeom]
    /\ UNCHANGED <<tgt, a, a0>>
    /\ UNCHANGED notSmooth

Smooth(nPass) ==
    /\ sm.phase = "idle" /\ tgt.impl = "CD3Smoothable"
    /\ a0' = a
    /\ sm' = IF tgt.mNSubField > 0 THEN Refuse(kCDNotLeaf)
             ELSE IF tgt.mStride # 0 THEN Refuse(kCDNot4Fold)
             ELSE Enter(nPass)
    /\ UNCHANGED <<tgt, a, ptype>>
    /\ UNCHANGED notSmooth

\* The sweep with a way out of the passes once a pass has changed nothing.
SweepStepEarlyExit ==
    /\ sm.phase \in {"red", "black"}
    /\ a' = SmoothPoint(a, ptype, tgt, sm.w, sm.r)
    /\ LET nxt == FirstOf(tgt.mNVal, sm.phase = "red", sm.r + 1)
           err == SmoothPointErr(sm.err, a, ptype, tgt, sm.w, sm.r)
       IN
       sm' = IF nxt < NPoint(tgt.mNVal)
             THEN [sm EXCEPT !.r = nxt, !.err = err]
             ELSE IF sm.phase = "red"
             THEN [sm EXCEPT !.phase = "black", !.err = err,
                             !.r = FirstOf(tgt.mNVal, FALSE, 0),
                             !.reds = @ + 1]
             ELSE IF sm.pass + 1 < sm.nPass /\ err # DZero
             THEN [sm EXCEPT !.phase = "red", !.pass = @ + 1,
                             !.r = FirstOf(tgt.mNVal, TRUE, 0),
                             !.err = DZero, !.out = Append(@, err),
                             !.blacks = @ + 1]
             ELSE [sm EXCEPT !.phase = "ret", !.pass = @ + 1,
                             !.ret = kCDNoErr,
                             !.err = err, !.out = Append(@, err),
                             !.blacks = @ + 1]
    /\ UNCHANGED <<tgt, a0, ptype>>
    /\ UNCHANGED notSmooth

\* One iteration of the innermost loop, and the loop control that follows
\* it: on to the next point of the colour, to the black loops, to the next
\* pass, or to the return.  out holds the values of err that the lines
\* "Pass %d error = %lf." have printed so far; reds and blacks count the
\* red and the black loops the call has been through.
SweepStep ==
    /\ sm.phase \in {"red", "black"}
    /\ a' = SmoothPoint(a, ptype, tgt, sm.w, sm.r)
    /\ LET nxt == FirstOf(tgt.mNVal, sm.phase = "red", sm.r + 1)
           err == SmoothPointErr(sm.err, a, ptype, tgt, sm.w, sm.r)
       IN
       sm' = IF nxt < NPoint(tgt.mNVal)
             THEN [sm EXCEPT !.r = nxt, !.err = err]
             ELSE IF sm.phase = "red"
             THEN [sm EXCEPT !.phase = "black", !.err = err,
                             !.r = FirstOf(tgt.mNVal, FALSE, 0),
                             !.reds = @ + 1]
             ELSE IF sm.pass + 1 < sm.nPass
             THEN [sm EXCEPT !.phase = "red", !.pass = @ + 1,
                             !.r = FirstOf(tgt.mNVal, TRUE, 0),
                             !.err = DZero, !.out = Append(@, err),
                             !.blacks = @ + 1]
             ELSE [sm EXCEPT !.phase = "ret", !.pass = @ + 1,
                             !.ret = kCDNoErr,
                             !.err = err, !.out = Append(@, err),
                             !.blacks = @ + 1]
    /\ UNCHANGED <<tgt, a0, ptype>>
    /\ UNCHANGED notSmooth

-----------------------------------------------------------------------------
(* Specification SpecSmooth: one smoothing call, by GSSmooth on a CD3Data  *)
(* its caller hands it or by CD3Smoothable::Smooth on the field ReadBinary *)
(* loaded, after AddGeometry calls.  Grids have at least 2 points a side.  *)

\* nPass is any int the command line gives.
MinPass == 0 - 1
Grids == {<<2, 3, 3>>, <<3, 3, 3>>, <<4, 3, 3>>}
Deltas == {<<1, 1, 1>>, <<1, 1, 2>>, <<45, 45, 45>>}
Fields == {"flat", "bumpy", "shell", "settled"}

Samples(nVal, kind) ==
    [i \in 0..(3 * NPoint(nVal) - 1) |->
        IF kind = "flat" THEN DInt(1)
        ELSE IF kind = "shell"
        THEN (IF Interior(nVal, i \div 3) THEN DZero ELSE DInt(1))
        ELSE DInt(((i \div 3) * (i \div 3) + (i % 3)) % 3)]

\* The field a file holds: "settled" is what an earlier run of one pass
\* and no geometry has written for the bumpy field.
FieldOf(t, kind) ==
    IF kind = "settled"
    THEN OnePass(Samples(t.mNVal, "bumpy"), NewTypeArray(t.mNVal), t,
                 Weights(t.mDelta))
    ELSE Samples(t.mNVal, kind)

Targets ==
    { [impl |-> im, mNVal |-> nv, mMin |-> <<0, 0, 0>>, mDelta |-> dl,
       mStride |-> st, mNSubField |-> ns] :
        im \in {"GSSmooth", "CD3Smoothable"}, nv \in Grids, dl \in Deltas,
        st \in {0, 3}, ns \in {0, 1} }

GeomFile(opens, header, icyl) ==
    [opens |-> opens, header |-> header, icyl |-> icyl]
ZCyl == <<1, 1, 0, 1, 1, 2, 0, 0>>
XCyl == <<0, 1, 1, 3, 1, 1, 0, 0>>
GeomFiles ==
    { GeomFile(FALSE, TRUE, <<>>), GeomFile(TRUE, FALSE, <<>>),
      GeomFile(TRUE, TRUE, <<>>), GeomFile(TRUE, TRUE, <<ZCyl>>),
      GeomFile(TRUE, TRUE, <<XCyl>>),
      GeomFile(TRUE, TRUE, <<SubSeq(ZCyl, 1, 7)>>) }
NoCylinders ==
    {f \in GeomFiles : ~CD3ListReadGeom(f).ok \/ CD3ListReadGeom(f).mGList = <<>>}

InitSmooth ==
    /\ tgt \in {t \in Targets : t.impl = "CD3Smoothable" => t.mNSubField = 0}
    /\ \E kind \in Fields : a = FieldOf(tgt, kind)
    /\ a0 = a
    /\ ptype = NewTypeArray(tgt.mNVal)
    /\ sm = [phase |-> "idle", pass |-> 0, nPass |-> 0, r |-> 0,
             ret |-> NoRet, nGeom |-> 0, geomRet |-> NoRet,
             err |-> DZero, out |-> <<>>, w |-> <<>>,
             reds |-> 0, blacks |-> 0]
    /\ TreeOff
    /\ AddIdle
    /\ BinOff
    /\ EvOff

NextSmooth ==
    \/ \E file \in NoCylinders, nPass \in MinPass..MaxPass :
          \E alloc \in BOOLEAN : GSSmooth(file, nPass, alloc)
    \/ \E file \in GeomFiles : AddGeometry(file)
    \/ \E nPass \in MinPass..MaxPass : Smooth(nPass)
    \/ SweepStep

SpecSmooth == InitSmooth /\ [][NextSmooth]_vars

-----------------------------------------------------------------------------
(* Properties of the smoother (specification SpecSmooth)                   *)

SameAt(r) == \A comp \in 0..2 : a[3 * r + comp] = a0[3 * r + comp]

\* C9: smoothing never changes a fixed point: at every moment of a
\* smoothing call, after any number of passes, every component of every
\* point whose type is 0 (boundary plane or marked by a geometry) has the
\* value it had when the call was made.
C9_FixedPointsKept ==
    \A r \in DOMAIN ptype : ptype[r] = 0 => SameAt(r)

C9_Witness ==
    /\ sm.phase = "ret" /\ sm.ret = kCDNoErr /\ sm.pass = MaxPass
    /\ \E r \in DOMAIN ptype : Interior(tgt.mNVal, r) /\ ptype[r] = 0
    /\ \E r \in DOMAIN ptype : ptype[r] = 1 /\ ~SameAt(r)

Smoothing == sm.phase \in {"red", "black"}
Returned(code) == sm.phase = "ret" /\ sm.ret = code

\* C10 (as amended): the smoother refuses a target with children with
\* kCDNotLeaf and a target without children whose stride is not 0 with
\* kCDNot4Fold; in both cases it never starts a pass and no sample changes.
C10_RefusesUnsuitable ==
    /\ tgt.mNSubField > 0 =>
          /\ ~Smoothing /\ a = a0
          /\ sm.phase = "ret" => sm.ret = kCDNotLeaf
    /\ (tgt.mNSubField = 0 /\ tgt.mStride # 0) =>
          /\ ~Smoothing /\ a = a0
          /\ sm.phase = "ret" => sm.ret = kCDNot4Fold

C10_Witness ==
    /\ tgt.mNSubField = 0 /\ tgt.mStride # 0
    /\ Returned(kCDNot4Fold)
    /\ a = a0
    /\ \E r \in DOMAIN ptype : ptype[r] = 1 /\ Relaxed(a, tgt, Weights(tgt.mDelta), r) # a

\* C10 as stated: a target with children is refused with kCDNotLeaf and a
\* target whose stride is not 0 with kCDNot4Fold, no sample changing in
\* either case.
C10_AsStated ==
    /\ tgt.mNSubField > 0 =>
          /\ ~Smoothing /\ a = a0
          /\ sm.phase = "ret" => sm.ret = kCDNotLeaf
    /\ tgt.mStride # 0 =>
          /\ ~Smoothing /\ a = a0
          /\ sm.phase = "ret" => sm.ret = kCDNot4Fold


\* Comparisons of doubles, and 2^k as a double.
DSign(x) == IF x.m = <<>> THEN 0 ELSE x.s
DLeq(x, y) == DSign(DSub(x, y)) <= 0
DAbs(x) == [x EXCEPT !.s = 1]
DPow2(k) ==
    [s |-> 1, m |-> BShl(<<1>>, Precision - 1), e |-> k - (Precision - 1)]

\* The call smooths the 3 x 3 x 3 grid with equal steps whose boundary
\* samples are 1.0 and fixed and whose one interior sample is 0 and free.
ShellCase ==
    /\ tgt.mNVal = <<3, 3, 3>>
    /\ tgt.mDelta[1] = tgt.mDelta[2] /\ tgt.mDelta[2] = tgt.mDelta[3]
    /\ a0 = Samples(tgt.mNVal, "shell")
    /\ ptype = NewTypeArray(tgt.mNVal)
InteriorSamples ==
    {i \in DOMAIN a : Interior(tgt.mNVal, i \div 3)}
PassesReported == Len(sm.out)

\* C11 (as amended): on a 3 x 3 x 3 Full3D grid with equal steps, every
\* boundary sample fixed at 1.0 and the one interior sample 0 in every
\* component, one smoothing pass sets the interior point, in every
\* component, to one and the same value that differs from 1.0 by at most
\* 2^-50 and is exactly 1.0 when the step is 1.0; the error reported for
\* the first pass is greater than 0 and the one reported for the second
\* pass is 0.
C11_OnePassWithinRounding ==
    (ShellCase /\ PassesReported >= 1) =>
        /\ \A i, j \in InteriorSamples : a[i] = a[j]
        /\ \A i \in InteriorSamples :
              /\ DLeq(DAbs(DSub(a[i], DInt(1))), DPow2(0 - 50))
              /\ tgt.mDelta[1] = 1 => a[i] = DInt(1)
        /\ DSign(sm.out[1]) > 0
        /\ PassesReported >= 2 => sm.out[2] = DZero

C11_Witness ==
    /\ ShellCase /\ PassesReported >= 2
    /\ \A i \in InteriorSamples : a[i] = DInt(1)

\* C11 as stated: one pass sets the interior point to exactly 1.0 in every
\* component; the error of pass 1 is greater than 0, that of pass 2 is 0.
C11_AsStated ==
    (ShellCase /\ PassesReported >= 1) =>
        /\ \A i \in InteriorSamples : a[i] = DInt(1)
        /\ DSign(sm.out[1]) > 0
        /\ PassesReported >= 2 => sm.out[2] = DZero


\* The smoother has passed its checks and is in, or through, its passes.
Accepted == Smoothing \/ Returned(kCDNoErr)

\* Every free point of f equals the weighted sum of its six neighbours in
\* every component, the sum being worked out as the smoother does, with
\* the weights of the call.
Converged(f) ==
    \A r \in DOMAIN ptype : ptype[r] = 1 =>
        \A comp \in 0..2 :
            NewVal(f, tgt, sm.w, 3 * r + comp) = f[3 * r + comp]

NoErrorSoFar ==
    /\ sm.err = DZero
    /\ \A k \in 1..Len(sm.out) : sm.out[k] = DZero

\* C12: smoothing is idempotent on a converged field: if at the call every
\* free point equals wx * (its two x neighbours) + wy * (its two y
\* neighbours) + wz * (its two z neighbours) in every component, then
\* whatever the number of passes no sample is changed at any moment of the
\* call and every pass reports an error of 0.
C12_ConvergedStaysPut ==
    Accepted => \/ a = a0 /\ NoErrorSoFar
                \/ ~Converged(a0)

C12_Witness ==
    /\ Returned(kCDNoErr) /\ Len(sm.out) = MaxPass
    /\ \E r \in DOMAIN ptype : ptype[r] = 1 /\ a0[3 * r] # a0[0]
    /\ Converged(a0)
    /\ a = a0


\* The leaf and Full3D preconditions of the smoother.
LeafAndFull3D == tgt.mNSubField = 0 /\ tgt.mStride = 0
Called == sm.phase # "idle"

\* The passes of a call that has returned, or is under way.
PassesAsAsked ==
    /\ Smoothing =>
          /\ sm.nPass > 0 /\ sm.pass < sm.nPass
          /\ sm.blacks = sm.pass /\ Len(sm.out) = sm.pass
          /\ sm.reds = IF sm.phase = "red" THEN sm.pass ELSE sm.pass + 1
    /\ Returned(kCDNoErr) =>
          IF sm.nPass > 0
          THEN /\ sm.pass = sm.nPass /\ Len(sm.out) = sm.nPass
               /\ sm.reds = sm.nPass /\ sm.blacks = sm.nPass
          ELSE /\ sm.pass = 0 /\ sm.out = <<>>
               /\ sm.reds = 0 /\ sm.blacks = 0
               /\ a = a0

\* The visits a call under way still has before it.
VisitsLeft ==
    (sm.nPass - sm.pass) * 2 * NPoint(tgt.mNVal)
        - (IF sm.phase = "black" THEN NPoint(tgt.mNVal) ELSE 0) - sm.r

\* C13 (as amended): whenever the leaf and Full3D preconditions hold, a
\* call of CD3Smoothable::Smooth, and a call of GSSmooth that gets its type
\* array and can read its geometry file, terminates (every step of its
\* loops lessens the number of visits left, which is never negative) after
\* exactly nPass passes, each one red and one black half-sweep, with no
\* early exit and no failure; for nPass <= 0 it performs no pass and
\* changes nothing.  GSSmooth returns kCDAllocFailed or kCDBadGeom without
\* a pass otherwise.
C13_ExactlynPassPasses ==
    [][LeafAndFull3D =>
        /\ PassesAsAsked'
        /\ Smoothing' => sm'.r < NPoint(tgt.mNVal) /\ VisitsLeft' > 0
        /\ Smoothing /\ Smoothing' => VisitsLeft' < VisitsLeft
        /\ sm'.phase = "ret" =>
              \/ sm'.ret = kCDNoErr
              \/ /\ tgt.impl = "GSSmooth"
                 /\ sm'.ret \in {kCDAllocFailed, kCDBadGeom}
                 /\ a' = a0' /\ sm'.out = <<>>]_vars

C13_Witness ==
    /\ LeafAndFull3D /\ Returned(kCDNoErr)
    /\ sm.nPass = MaxPass /\ sm.pass = MaxPass
    /\ sm.reds = MaxPass /\ sm.blacks = MaxPass
    /\ a # a0

\* C13 as stated: with the preconditions, every call performs exactly
\* nPass passes and no failure path skips them.
C13_AsStated ==
    (LeafAndFull3D /\ sm.phase = "ret") =>
        /\ sm.ret = kCDNoErr
        /\ PassesAsAsked

\* The points whose samples newVal reads for point rIndex: index +- dx,
\* index +- dy and index +- dz, as point indices.
Stencil(nVal, rIndex) ==
    {rIndex + 1, rIndex - 1, rIndex + nVal[1], rIndex - nVal[1],
     rIndex + nVal[1] * nVal[2], rIndex - nVal[1] * nVal[2]}

Even(r) == (Ix(tgt.mNVal, r) + Iy(tgt.mNVal, r) + Iz(tgt.mNVal, r)) % 2 = 0
Written(f, g) == {r \in DOMAIN ptype : \E comp \in 0..2 : g[3 * r + comp] # f[3 * r + comp]}
\* The points of the colour of r that lie strictly between r and t.
SameColourBetween(r, t) ==
    {u \in (r + 1)..(t - 1) : u \in DOMAIN ptype /\ Even(u) = Even(r)}

\* C23: in every pass the red half-sweep visits the points with
\* ix + iy + iz even, each once and in ascending order, and is through
\* before the black half-sweep starts, which visits the points with
\* ix + iy + iz odd in the same way; a visit writes the visited point only,
\* and only if it is free, and a free point's six stencil neighbours all
\* have the other colour, so that no update of a half-sweep reads a point
\* that the same half-sweep updates.
C23_RedThenBlack ==
    [][Smoothing =>
        /\ Even(sm.r) = (sm.phase = "red")
        /\ Written(a, a') \subseteq {r \in {sm.r} : ptype[r] = 1}
        /\ ptype[sm.r] = 1 =>
              /\ a' = Relaxed(a, tgt, sm.w, sm.r)
              /\ \A n \in Stencil(tgt.mNVal, sm.r) :
                    n \in DOMAIN ptype /\ Even(n) # Even(sm.r)
        /\ IF Smoothing' /\ sm'.phase = sm.phase /\ sm'.pass = sm.pass
           THEN /\ sm'.r > sm.r
                /\ SameColourBetween(sm.r, sm'.r) = {}
           ELSE /\ SameColourBetween(sm.r, NPoint(tgt.mNVal)) = {}
                /\ sm.phase = "red" =>
                      /\ sm'.phase = "black" /\ sm'.pass = sm.pass
                      /\ ~Even(sm'.r)
                      /\ \A u \in 0..(sm'.r - 1) : Even(u)
                /\ sm.phase = "black" =>
                      /\ sm'.pass = sm.pass + 1
                      /\ Smoothing' => sm'.phase = "red" /\ sm'.r = 0]_vars

C23_Witness ==
    /\ sm.phase = "black" /\ sm.pass = MaxPass - 1
    /\ ptype[sm.r] = 1
    /\ \E r \in DOMAIN ptype : Even(r) /\ ptype[r] = 1 /\ ~SameAt(r)

\* Point r has an index that is 0 or count - 1 on some axis.
OnEndPlane(r) ==
    \E i \in 1..3 :
        LET idx == <<Ix(tgt.mNVal, r), Iy(tgt.mNVal, r), Iz(tgt.mNVal, r)>>[i]
        IN  idx = 0 \/ idx = tgt.mNVal[i] - 1
\* The mask as it was built: no geometry has refined it.
Unrefined == sm.nGeom = 0
\* A cylinder of the geometry file reports that it contains point r.
Contained(file, r) ==
    /\ CD3ListReadGeom(file).ok
    /\ \E k \in 1..Len(CD3ListReadGeom(file).mGList) :
          ICylinderPointIn(CD3ListReadGeom(file).mGList[k],
                           PointAt(tgt, r), tgt.mDelta[1])
Refines(file, before, after) ==
    \A r \in DOMAIN before :
        (after[r] = 0) <=> (before[r] = 0 \/ Contained(file, r))

\* C24: a mask that no geometry has refined has a point fixed (0) iff one
\* of the point's indices is 0 or count - 1, and free (1) otherwise; a
\* geometry refinement leaves a point fixed iff it was fixed before or a
\* cylinder of the geometry reports that it contains the point's
\* coordinate, so that it never turns a fixed point free; and no other step
\* changes the mask.
C24_MaskBuiltThenRefined ==
    [][/\ Unrefined' => \A r \in DOMAIN ptype' :
                       ptype'[r] = (IF OnEndPlane(r) THEN 0 ELSE 1)
       /\ DOMAIN ptype' = 0..(NPoint(tgt.mNVal) - 1)
       /\ IF sm'.nGeom # sm.nGeom
          THEN \E file \in GeomFiles :
                  /\ Refines(file, ptype, ptype')
                  /\ sm'.geomRet = (IF CD3ListReadGeom(file).ok THEN kCDNoErr
                                    ELSE kCDBadGeom)
          ELSE \A r \in DOMAIN ptype : ptype[r] = 0 => ptype'[r] = 0]_vars

C24_Witness ==
    /\ sm.nGeom = MaxGeoms
    /\ \E r \in DOMAIN ptype : ~OnEndPlane(r) /\ ptype[r] = 0
    /\ \E r \in DOMAIN ptype : ~OnEndPlane(r) /\ ptype[r] = 1

\* The samples newVal reads for component comp of point rIndex: index +- dx
\* + comp and so on.  A value below zero here is one that the uint64_t
\* subtraction wraps to the top of the range.
Reads(nVal, rIndex, comp) == {3 * n + comp : n \in Stencil(nVal, rIndex)}

\* C30: while a call smooths, on a grid with two or more points a side
\* and whatever the geometry files have marked, every free point has each
\* of its three indices between 1 and count - 2, and the six samples read
\* for each of its components lie inside the sample buffer, none at an
\* index that a subtraction has wrapped below zero.
C30_FreePointsInside ==
    Smoothing =>
        \A r \in DOMAIN ptype : ptype[r] = 1 =>
            /\ Ix(tgt.mNVal, r) \in 1..(tgt.mNVal[1] - 2)
            /\ Iy(tgt.mNVal, r) \in 1..(tgt.mNVal[2] - 2)
            /\ Iz(tgt.mNVal, r) \in 1..(tgt.mNVal[3] - 2)
            /\ \A comp \in 0..2 :
                  Reads(tgt.mNVal, r, comp) \subseteq DOMAIN a

C30_Witness ==
    /\ Smoothing /\ sm.nGeom > 0
    /\ ptype[sm.r] = 1
    /\ \E r \in DOMAIN ptype : ptype[r] = 0 /\ ~OnEndPlane(r)

-----------------------------------------------------------------------------
(* The binary field file: CD3Init, CD3WriteBinary and CD3ReadBinary        *)
(* (COMSOLData3D.c).  A double of the header is a small integer or NaN,    *)
(* compared as C compares doubles; a sample is the bit pattern of a        *)
(* double, copied as it is.  Axes x, y, z are 1, 2, 3; mField and the      *)
(* columns of the text file are indexed from 0 as in the program.          *)

gCD3Magic == 1128542018
gCD3HeadLength == 512
kCDBadStructure == 6

Dbl(v) == [nan |-> FALSE, v |-> v]
NaN == [nan |-> TRUE, v |-> 0]
\* x <= y and x != y on doubles: with a NaN the first is false, the second true
CLeq(x, y) == ~x.nan /\ ~y.nan /\ x.v <= y.v
CNe(x, y) == x.nan \/ y.nan \/ x.v # y.v
CNeg(x) == [x EXCEPT !.v = 0 - @]

Count(f) == Cardinality(DOMAIN f)
FirstN(f, n) == [k \in 0..(n - 1) |-> f[k]]

\* the natural number n < 2^31 in limbs
BNat(n) == BNorm(<<n % Limb, (n \div Limb) % Limb, n \div (Limb * Limb)>>)
\* the low 32 bits of x, read as a C int
IntOfLow32(x) ==
    IF BLimb(x, 3) % 4 >= 2
    THEN ((BLimb(x, 1) + BLimb(x, 2) * Limb + (BLimb(x, 3) % 2) * 2^30)
             - 2^30) - 2^30
    ELSE BLimb(x, 1) + BLimb(x, 2) * Limb + (BLimb(x, 3) % 2) * 2^30
\* int npoint = mNVal[0] * mNVal[1] * mNVal[2]: the product of unsigned ints,
\* modulo 2^32, converted to int
NPointInt(nVal) ==
    IntOfLow32(BMul(BMul(BNat(nVal[1]), BNat(nVal[2])), BNat(nVal[3])))
Components(type) == IF type = kCD3Data2 THEN 2 ELSE 3

\* ---- the text file as CDInit and CDAnalyse hand it over (COMSOLData.c)

\* mRange[d] of a grid column that takes n values from min on, step apart
CDRange(min, step, n) ==
    [mActive |-> step * (n - 1) > 0,
     mNVal |-> IF step * (n - 1) > 0 THEN n ELSE 1,
     mMin |-> Dbl(min),
     mMax |-> Dbl(min + step * (n - 1)),
     mDelta |-> IF step * (n - 1) > 0 THEN Dbl(step) ELSE Dbl(0)]

\* mExprNames holds the expression names only: mExprNames[3] of the program
\* is names[1].  Expression e has the value 10 * k + e on data line k.
CDFile(nDim, rx, ry, rz, names) ==
    [mNDimension |-> nDim, mNExpression |-> Len(names),
     mRange |-> <<rx, ry, rz>>, mExprNames |-> names,
     mDStore |-> [e \in 1..Len(names) |->
                    [k \in 0..(rx.mNVal * ry.mNVal * rz.mNVal - 1) |->
                        10 * k + e]]]

BadStructure(dp) == [err |-> kCDBadStructure, dp |-> dp]

CopyRanges(dp, cdp) ==
    [dp EXCEPT !.mNVal = [d \in 1..3 |-> cdp.mRange[d].mNVal],
               !.mMin = [d \in 1..3 |-> cdp.mRange[d].mMin],
               !.mMax = [d \in 1..3 |-> cdp.mRange[d].mMax],
               !.mDelta = [d \in 1..3 |-> cdp.mRange[d].mDelta]]

\* mField[k * n + c] = mDStore[c + 3][k] for the n expressions, then mType
MergeInto(dp, cdp, n, type) ==
    [dp EXCEPT !.mField = [j \in 0..(NPointInt(dp.mNVal) * n - 1) |->
                              cdp.mDStore[(j % n) + 1][j \div n]],
               !.mType = type]

\* After an error the callers do not use dp: the ranges an Init has copied
\* before it fails are left out.
Init3D(dp, cdp, alloc) ==
    IF cdp.mNExpression # 3 THEN BadStructure(dp)
    ELSE IF cdp.mExprNames[1] # "es.Ex" THEN BadStructure(dp)
    ELSE IF cdp.mExprNames[2] # "es.Ey" THEN BadStructure(dp)
    ELSE IF \E d \in 1..3 : cdp.mRange[d].mNVal < 2 THEN BadStructure(dp)
    ELSE IF ~alloc THEN [err |-> kCDAllocFailed, dp |-> dp]
    ELSE [err |-> kCDNoErr,
          dp |-> MergeInto(CopyRanges(dp, cdp), cdp, 3, kCD3Data3)]

\* the last inactive dimension, 0 when every dimension is active
InactiveDim(cdp) ==
    IF ~cdp.mRange[3].mActive THEN 3
    ELSE IF ~cdp.mRange[2].mActive THEN 2
    ELSE IF ~cdp.mRange[1].mActive THEN 1 ELSE 0

\* case 0 and case 1 of Init2D: in is the inactive dimension, ac the other
\* of x and y
Mirror(dp, in, ac) ==
    [dp EXCEPT !.mStride = dp.mNVal[ac],
               !.mDelta[in] = dp.mDelta[ac],
               !.mMin[in] = CNeg(dp.mMax[ac]),
               !.mMax[in] = dp.mMax[ac],
               !.mMin[ac] = CNeg(dp.mMax[ac])]

\* An Init2D without the test of the x and y minima.
Init2DAnyMin(dp, cdp, alloc) ==
    IF cdp.mNExpression # 2 THEN BadStructure(dp)
    ELSE IF InactiveDim(cdp) \notin {1, 2} THEN BadStructure(dp)
    ELSE IF cdp.mExprNames[1] # (IF InactiveDim(cdp) = 1 THEN "Ey" ELSE "Ex")
    THEN BadStructure(dp)
    ELSE IF cdp.mExprNames[2] # "Ez" THEN BadStructure(dp)
    ELSE IF ~alloc THEN [err |-> kCDAllocFailed, dp |-> dp]
    ELSE [err |-> kCDNoErr,
          dp |-> MergeInto(Mirror(CopyRanges(dp, cdp), InactiveDim(cdp),
                                  3 - InactiveDim(cdp)),
                           cdp, 2, kCD3Data2)]
Init2D(dp, cdp, alloc) ==
    IF cdp.mNExpression # 2 THEN BadStructure(dp)
    ELSE IF InactiveDim(cdp) \notin {1, 2} THEN BadStructure(dp)
    ELSE IF \/ CNe(cdp.mRange[1].mMin, Dbl(0))
            \/ CNe(cdp.mRange[2].mMin, Dbl(0)) THEN BadStructure(dp)
    ELSE IF cdp.mExprNames[1] # (IF InactiveDim(cdp) = 1 THEN "Ey" ELSE "Ex")
    THEN BadStructure(dp)
    ELSE IF cdp.mExprNames[2] # "Ez" THEN BadStructure(dp)
    ELSE IF ~alloc THEN [err |-> kCDAllocFailed, dp |-> dp]
    ELSE [err |-> kCDNoErr,
          dp |-> MergeInto(Mirror(CopyRanges(dp, cdp), InactiveDim(cdp),
                                  3 - InactiveDim(cdp)),
                           cdp, 2, kCD3Data2)]

\* the CD3Data with the defaults CD3Init fills in
Defaults ==
    [mType |-> kCD3Error, mStride |-> 0, mNSubField |-> 0, mField |-> <<>>,
     mNVal |-> <<0, 0, 0>>,
     mMin |-> <<Dbl(0), Dbl(0), Dbl(0)>>,
     mMax |-> <<Dbl(0), Dbl(0), Dbl(0)>>,
     mDelta |-> <<Dbl(0), Dbl(0), Dbl(0)>>]

NActiveOf(cdp) == Cardinality({d \in 1..3 : cdp.mRange[d].mActive})

CD3Init(cdp, alloc) ==
    IF cdp.mNDimension # 3 THEN BadStructure(Defaults)
    ELSE IF NActiveOf(cdp) = 2 THEN Init2D(Defaults, cdp, alloc)
    ELSE IF NActiveOf(cdp) = 3 THEN Init3D(Defaults, cdp, alloc)
    ELSE BadStructure(Defaults)

\* ---- the file

\* a file name the program holds: a NULL pointer or a string of char codes
NullName == [null |-> TRUE, str |-> <<>>]
Name(n) == [null |-> FALSE, str |-> [i \in 1..n |-> 97 + (i % 26)]]

\* Byte i of a block malloc returns: the program never clears it, so it is
\* whatever the heap held.
Junks == {"zero", "ones", "mixed"}
Junk(kind, i) ==
    IF kind = "zero" THEN 0
    ELSE IF kind = "ones" THEN 255 ELSE (7 * i + 1) % 256
Fresh(kind, off, n) == [i \in 1..n |-> Junk(kind, off + i - 1)]

\* strncpy(dst, src, n): the chars of src, at most n, then NULs up to n bytes
strncpy(dst, src, n) ==
    [i \in 1..Len(dst) |->
        IF i > n THEN dst[i] ELSE IF i <= Len(src) THEN src[i] ELSE 0]

\* the name field at byte off of the header block
NameField(kind, off, name) ==
    IF name.null THEN Fresh(kind, off, 64)
    ELSE strncpy(Fresh(kind, off, 64), name.str, 63)

\* the part of CD3Data the header carries; what CD3WriteBinary leaves
\* unassigned of head->dp (mSubField[4..19], mFieldName) no reader looks at
HeadDataNoStride(dp) ==
    [mType |-> dp.mType, mStride |-> 0, mNSubField |-> 0,
     mNVal |-> dp.mNVal, mMin |-> dp.mMin, mMax |-> dp.mMax,
     mDelta |-> dp.mDelta]
HeadData(dp) ==
    [mType |-> dp.mType, mStride |-> dp.mStride, mNSubField |-> 0,
     mNVal |-> dp.mNVal, mMin |-> dp.mMin, mMax |-> dp.mMax,
     mDelta |-> dp.mDelta]

Header(dp, field, model, kind) ==
    [magic |-> gCD3Magic, dataOffset |-> gCD3HeadLength,
     modelName |-> NameField(kind, 8, model),
     fileName |-> NameField(kind, 72, field),
     dp |-> HeadData(dp)]

\* whole: the file holds all gCD3HeadLength bytes of a header
File(whole, head, data) == [whole |-> whole, head |-> head, data |-> data]
NoHeader ==
    [magic |-> 0, dataOffset |-> 0, modelName |-> <<>>, fileName |-> <<>>,
     dp |-> HeadData(Defaults)]
ShortFile == File(FALSE, NoHeader, <<>>)

\* room: what the sink takes, "none" (not the whole header), "part" (the
\* header and half of the samples) or "all"
Rooms == {"none", "part", "all"}
CD3WriteBinary(dp, field, model, kind, alloc, room) ==
    IF ~alloc THEN [success |-> FALSE, file |-> ShortFile]
    ELSE IF room = "none" THEN [success |-> FALSE, file |-> ShortFile]
    ELSE IF dp.mType \notin {kCD3Data2, kCD3Data3}
    THEN [success |-> FALSE,
          file |-> File(TRUE, Header(dp, field, model, kind), <<>>)]
    ELSE IF room = "part"
    THEN [success |-> FALSE,
          file |-> File(TRUE, Header(dp, field, model, kind),
                        FirstN(dp.mField,
                               (NPointInt(dp.mNVal) * Components(dp.mType))
                                   \div 2))]
    ELSE [success |-> TRUE,
          file |-> File(TRUE, Header(dp, field, model, kind),
                        FirstN(dp.mField,
                               NPointInt(dp.mNVal) * Components(dp.mType)))]

Failed(dp) == [success |-> FALSE, dp |-> dp]

CopyDim(dp, h, i) ==
    [dp EXCEPT !.mNVal[i] = h.mNVal[i], !.mMin[i] = h.mMin[i],
               !.mMax[i] = h.mMax[i], !.mDelta[i] = h.mDelta[i]]

BadDim(h, i) ==
    /\ h.mNVal[i] > 1
    /\ CLeq(h.mMax[i], h.mMin[i]) \/ CLeq(h.mDelta[i], Dbl(0))

\* the loop over the dimensions, from dimension i on
RECURSIVE ReadDims(_, _, _, _)
ReadDims(dp, h, i, nActive) ==
    IF i > 3 THEN [ok |-> TRUE, dp |-> dp, nActive |-> nActive]
    ELSE IF BadDim(h, i)
    THEN [ok |-> FALSE, dp |-> CopyDim(dp, h, i), nActive |-> nActive + 1]
    ELSE ReadDims(CopyDim(dp, h, i), h, i + 1,
                  IF h.mNVal[i] > 1 THEN nActive + 1 ELSE nActive)

\* from the malloc of the samples on; a negative npoint asks malloc for
\* more than there is
ReadSamples(dp, data, npoint, alloc) ==
    IF npoint < 0 \/ ~alloc THEN Failed([dp EXCEPT !.mField = <<>>])
    ELSE IF Count(data) < npoint THEN Failed([dp EXCEPT !.mField = data])
    ELSE [success |-> TRUE, dp |-> [dp EXCEPT !.mField = FirstN(data, npoint)]]

\* from the test of the active dimensions on
ReadCounted(r, h, data, alloc) ==
    IF ~r.ok THEN Failed(r.dp)
    ELSE IF \/ r.dp.mType = kCD3Data2 /\ r.nActive # 2
            \/ r.dp.mType = kCD3Data3 /\ r.nActive # 3 THEN Failed(r.dp)
    ELSE ReadSamples([r.dp EXCEPT !.mStride = h.mStride, !.mNSubField = 0],
                     data,
                     NPointInt(r.dp.mNVal) * Components(r.dp.mType), alloc)

\* dp is the caller's CD3Data; allocHead and allocField say whether the two
\* mallocs succeed
CD3ReadBinary(dp, file, allocHead, allocField) ==
    IF ~allocHead THEN Failed(dp)
    ELSE IF ~file.whole THEN Failed(dp)
    ELSE IF file.head.magic # gCD3Magic THEN Failed(dp)
    ELSE IF file.head.dp.mType \notin {kCD3Data2, kCD3Data3} THEN Failed(dp)
    ELSE ReadCounted(ReadDims([dp EXCEPT !.mType = file.head.dp.mType],
                              file.head.dp, 1, 0),
                     file.head.dp, file.data, allocField)

-----------------------------------------------------------------------------
(* Specification SpecBinary: a run that converts a text file (CD3Init,     *)
(* then CD3WriteBinary) or one that starts from a binary file somebody     *)
(* hands it (CD3ReadBinary, then CD3WriteBinary of what it read).          *)

RX == CDRange(0, 1, 2)
RZ == CDRange(0 - 1, 2, 3)
Flat == CDRange(0, 0, 1)
TextFiles ==
    { CDFile(3, RX, RX, RZ, <<"es.Ex", "es.Ey", "es.Ez">>),
      CDFile(3, Flat, RX, RZ, <<"Ey", "Ez">>),
      CDFile(3, CDRange(0, 2, 3), Flat, RX, <<"Ex", "Ez">>),
      CDFile(3, RX, RX, RZ, <<"Ex", "Ey", "Ez">>),
      CDFile(3, RX, RX, Flat, <<"Ex", "Ey">>),
      CDFile(3, Flat, CDRange(1, 1, 2), RZ, <<"Ey", "Ez">>),
      CDFile(3, Flat, Flat, RZ, <<"Ez">>),
      CDFile(2, RX, RX, Flat, <<"Ex", "Ey">>) }
FieldNames == {Name(5), Name(63)}
ModelNames == {NullName, Name(70)}

\* headers of files that CD3WriteBinary did not write
Base3 ==
    [magic |-> gCD3Magic, dataOffset |-> gCD3HeadLength,
     modelName |-> Fresh("zero", 8, 64), fileName |-> Fresh("zero", 72, 64),
     dp |-> [mType |-> kCD3Data3, mStride |-> 0, mNSubField |-> 0,
             mNVal |-> <<2, 2, 2>>,
             mMin |-> <<Dbl(0), Dbl(0), Dbl(0)>>,
             mMax |-> <<Dbl(1), Dbl(1), Dbl(1)>>,
             mDelta |-> <<Dbl(1), Dbl(1), Dbl(1)>>]]
Base2 ==
    [Base3 EXCEPT !.dp.mType = kCD3Data2, !.dp.mStride = 2,
                  !.dp.mNVal = <<1, 2, 2>>, !.dp.mMin[1] = Dbl(0 - 1),
                  !.dp.mMin[2] = Dbl(0 - 1)]
Damages ==
    {"none", "magic", "type", "count", "nocount", "max", "delta", "backwards",
     "nanmax", "nanmin", "nandelta", "huge"}
Damaged(h, what) ==
    CASE what = "none" -> h
      [] what = "magic" -> [h EXCEPT !.magic = 0]
      [] what = "type" -> [h EXCEPT !.dp.mType = kCD3Unused]
      [] what = "count" -> [h EXCEPT !.dp.mNVal[2] = 1]
      [] what = "nocount" -> [h EXCEPT !.dp.mNVal[1] = 0]
      [] what = "max" -> [h EXCEPT !.dp.mMax[3] = h.dp.mMin[3]]
      [] what = "delta" -> [h EXCEPT !.dp.mDelta[2] = Dbl(0)]
      [] what = "backwards" -> [h EXCEPT !.dp.mDelta[3] = Dbl(0 - 1)]
      [] what = "nanmax" -> [h EXCEPT !.dp.mMax[2] = NaN]
      [] what = "nanmin" -> [h EXCEPT !.dp.mMin[3] = NaN]
      [] what = "nandelta" -> [h EXCEPT !.dp.mDelta[3] = NaN]
      [] what = "huge" -> [h EXCEPT !.dp.mNVal = <<65536, 65536, 2>>]
DataLens == {0, 7, 8, 9, 23, 24, 25}
Files ==
    {ShortFile} \cup
    { File(TRUE, Damaged(h, what), [k \in 0..(n - 1) |-> 100 + k]) :
        h \in {Base2, Base3}, what \in Damages, n \in DataLens }

NoWrite == [called |-> FALSE, success |-> FALSE, dp |-> Defaults]
NoRead ==
    [called |-> FALSE, success |-> FALSE, dp |-> Defaults,
     file |-> ShortFile, alloc |-> FALSE]

InitBinary ==
    /\ bin \in { [phase |-> "on", loaded |-> FALSE, err |-> kCDNoErr,
                  have |-> FALSE, dp |-> Defaults,
                  gFieldFileName |-> NullName, gModelFileName |-> NullName,
                  file |-> f, wr |-> NoWrite, rd |-> NoRead] : f \in Files }
    /\ TreeOff
    /\ AddIdle
    /\ SmoothOff
    /\ EvOff

\* main (main.c, COMSOLTxt2Bin.cpp): CD3Init on the text file fname, whose
\* header names the model or not
Load(cdp, fname, model, alloc) ==
    /\ ~bin.loaded /\ ~bin.wr.called /\ ~bin.rd.called
    /\ bin.file = ShortFile
    /\ bin' = [bin EXCEPT !.loaded = TRUE,
                          !.err = CD3Init(cdp, alloc).err,
                          !.have = (CD3Init(cdp, alloc).err = kCDNoErr),
                          !.dp = CD3Init(cdp, alloc).dp,
                          !.gFieldFileName = fname,
                          !.gModelFileName = model]
    /\ UNCHANGED notBin

\* CD3WriteBinary of the CD3Data the run holds, to a file opened afresh
Write(kind, alloc, room) ==
    /\ bin.have
    /\ bin' = [bin EXCEPT
                 !.file = CD3WriteBinary(bin.dp, bin.gFieldFileName,
                                         bin.gModelFileName, kind, alloc,
                                         room).file,
                 !.wr = [called |-> TRUE,
                         success |-> CD3WriteBinary(bin.dp,
                                        bin.gFieldFileName,
                                        bin.gModelFileName, kind, alloc,
                                        room).success,
                         dp |-> bin.dp]]
    /\ UNCHANGED notBin

\* CD3ReadBinary of the file into the run's CD3Data
Read(allocHead, allocField) ==
    /\ bin' = [bin EXCEPT
                 !.dp = CD3ReadBinary(bin.dp, bin.file, allocHead,
                                      allocField).dp,
                 !.have = CD3ReadBinary(bin.dp, bin.file, allocHead,
                                        allocField).success,
                 !.rd = [called |-> TRUE,
                         success |-> CD3ReadBinary(bin.dp, bin.file,
                                        allocHead, allocField).success,
                         dp |-> CD3ReadBinary(bin.dp, bin.file, allocHead,
                                              allocField).dp,
                         file |-> bin.file,
                         alloc |-> allocHead /\ allocField]]
    /\ UNCHANGED notBin

NextBinary ==
    \/ \E cdp \in TextFiles, fname \in FieldNames, model \in ModelNames :
          \E alloc \in BOOLEAN : Load(cdp, fname, model, alloc)
    \/ \E kind \in Junks, alloc \in BOOLEAN, room \in Rooms :
          Write(kind, alloc, room)
    \/ \E allocHead \in BOOLEAN, allocField \in BOOLEAN :
          Read(allocHead, allocField)

SpecBinary == InitBinary /\ [][NextBinary]_vars

\* C14: whenever the file CD3ReadBinary read is the one a successful
\* CD3WriteBinary wrote for a CD3Data g, and both mallocs of the read
\* succeeded, the read succeeds and yields g's kind, stride, counts, minima,
\* maxima and steps, no children, and g's samples element for element.
SameGrid(g, h) ==
    /\ h.mType = g.mType /\ h.mStride = g.mStride
    /\ h.mNVal = g.mNVal /\ h.mMin = g.mMin /\ h.mMax = g.mMax
    /\ h.mDelta = g.mDelta
    /\ h.mNSubField = 0
    /\ h.mField = g.mField
ReadBack ==
    /\ bin.phase = "on"
    /\ bin.wr.success
    /\ bin.rd.called /\ bin.rd.file = bin.file /\ bin.rd.alloc
C14_RoundTrip ==
    ReadBack => bin.rd.success /\ SameGrid(bin.wr.dp, bin.rd.dp)

C14_Witness ==
    /\ ReadBack
    /\ bin.loaded
    /\ bin.wr.dp.mType = kCD3Data2
    /\ bin.wr.dp.mStride = 3
    /\ Count(bin.rd.dp.mField) = 12
    /\ bin.rd.dp.mField[11] = 52

\* C15: CD3ReadBinary returns success only if the magic matches, the kind is
\* kCD3Data2 or kCD3Data3, the number of extents with count > 1 is 2 or 3
\* as the kind asks, every such extent has max > min and step > 0, and the
\* samples read number count0 * count1 * count2 * components.
Gt(x, y) == ~x.nan /\ ~y.nan /\ x.v > y.v
WellFormed(h) ==
    /\ h.magic = gCD3Magic
    /\ h.dp.mType \in {kCD3Data2, kCD3Data3}
    /\ Cardinality({i \in 1..3 : h.dp.mNVal[i] > 1})
          = (IF h.dp.mType = kCD3Data2 THEN 2 ELSE 3)
    /\ \A i \in 1..3 :
          h.dp.mNVal[i] > 1 =>
              Gt(h.dp.mMax[i], h.dp.mMin[i]) /\ Gt(h.dp.mDelta[i], Dbl(0))
AllSamples(h, field) ==
    BNat(Count(field)) =
        BMulSmall(BMul(BMul(BNat(h.dp.mNVal[1]), BNat(h.dp.mNVal[2])),
                       BNat(h.dp.mNVal[3])), Components(h.dp.mType))
C15_SuccessOnlyIfValid ==
    (bin.phase = "on" /\ bin.rd.called /\ bin.rd.success) =>
        /\ bin.rd.file.whole
        /\ WellFormed(bin.rd.file.head)
        /\ AllSamples(bin.rd.file.head, bin.rd.dp.mField)

\* C16: in every header CD3WriteBinary writes, each name field holds the
\* first min(length, 63) characters of its name and then only NUL bytes up
\* to and including its 64th byte, also for a name of 63 or more characters
\* and for no name at all.
Padded(name) ==
    [i \in 1..64 |->
        IF ~name.null /\ i <= Len(name.str) /\ i <= 63 THEN name.str[i]
        ELSE 0]
C16_NameFieldsPadded ==
    (bin.phase = "on" /\ bin.wr.called /\ bin.file.whole) =>
        /\ bin.file.head.modelName = Padded(bin.gModelFileName)
        /\ bin.file.head.fileName = Padded(bin.gFieldFileName)

-----------------------------------------------------------------------------
(* Interpolation in the samples of one CD3Data without daughters           *)
(* (CD3GetEAtPoint, Get3DEAtPoint, GetAxEAtPoint, Get2DEAtPoint),          *)
(* computed in doubles: here mMin, mMax, mDelta, the samples and the       *)
(* coordinates are doubles of the arithmetic above.  Arrays are indexed    *)
(* from 1, so dimension i of the code is i + 1 here; sample indices idx    *)
(* count from 0 as in the code.                                            *)

\* the decimal p/q as the file reader converts it: the nearest double
DRat(n, d) == DDiv(DInt(n), DInt(d))
DOne == DInt(1)

\* One dimension as CDAnalyse leaves it: n values from min to max.
Analysed(min, max, n) ==
    [mNVal |-> n, mMin |-> min, mMax |-> max, mActive |-> DLess(min, max),
     mDelta |-> IF n > 1 THEN DDiv(DSub(max, min), DInt(n - 1)) ELSE DZero]

\* What Init3D builds from three analysed dimensions and the samples.
Grid3D(rx, ry, rz, field) ==
    [mType |-> kCD3Data3, mStride |-> 1,
     mNVal |-> <<rx.mNVal, ry.mNVal, rz.mNVal>>,
     mMin |-> <<rx.mMin, ry.mMin, rz.mMin>>,
     mMax |-> <<rx.mMax, ry.mMax, rz.mMax>>,
     mDelta |-> <<rx.mDelta, ry.mDelta, rz.mDelta>>,
     mField |-> field]

\* What Init2D builds: in is the inactive one of x and y (1 or 2), rr the
\* analysed radial dimension, rz the analysed z.  The bounds of x and y
\* become -max..max of the radial dimension and the step of the inactive
\* dimension that of the radial one; the counts stay as analysed.
Grid2D(in, rr, rz, field) ==
    [mType |-> kCD3Data2, mStride |-> rr.mNVal,
     mNVal |-> IF in = 1 THEN <<1, rr.mNVal, rz.mNVal>>
               ELSE <<rr.mNVal, 1, rz.mNVal>>,
     mMin |-> <<DNeg(rr.mMax), DNeg(rr.mMax), rz.mMin>>,
     mMax |-> <<rr.mMax, rr.mMax, rz.mMax>>,
     mDelta |-> <<rr.mDelta, rr.mDelta, rz.mDelta>>,
     mField |-> field]

PtInBoundsD(dp, coord) ==
    \A i \in 1..3 : ~DLess(coord[i], dp.mMin[i]) /\ ~DLess(dp.mMax[i], coord[i])

\* dp->mField[idx]; a read outside the buffer yields whatever is there
FieldAt(dp, idx, junk) ==
    IF idx >= 0 /\ idx < Len(dp.mField) THEN dp.mField[idx + 1] ELSE junk

\* "Correct if at top edge"
TopEdgeLate(index, nVal) == IF index = nVal THEN index - 1 ELSE index
TopEdgeNone(index, nVal) == index
TopEdge(index, nVal) == IF index = nVal - 1 THEN index - 1 ELSE index

\* irc * lo + rc * hi
Lerp(irc, rc, lo, hi) == DAdd(DMul(irc, lo), DMul(rc, hi))

\* the slop allowed to a reduced coordinate
BadReduced(rc) == DLess(rc, DNeg(DRat(1, 1000))) \/ DLess(DRat(1001, 1000), rc)

NoE(E0) == [ok |-> FALSE, E |-> E0]

\* ---- Get3DEAtPoint
Index3(dp, coord) ==
    [i \in 1..3 |->
        TopEdge(DTrunc(DDiv(DSub(coord[i], dp.mMin[i]), dp.mDelta[i])),
                dp.mNVal[i])]

\* index is an int and mNVal an unsigned int: the comparison is made
\* unsigned, where a negative index is above every count
AtLeast(index, nVal) == index < 0 \/ index >= nVal

OutOfRange3(dp, coord, index) ==
    \E i \in 1..3 : \/ DLess(coord[i], dp.mMin[i])
                    \/ DLess(dp.mMax[i], coord[i])
                    \/ AtLeast(index[i], dp.mNVal[i] - 1)

\* idx<z><y><x>
Idx3(dp, index, z, y, x) ==
    (((index[3] + z) * dp.mNVal[2] + (index[2] + y)) * dp.mNVal[1]
        + index[1] + x) * 3

Reduced3(dp, coord, index) ==
    [i \in 1..3 |->
        DDiv(DSub(coord[i],
                  DAdd(dp.mMin[i], DMul(DInt(index[i]), dp.mDelta[i]))),
             dp.mDelta[i])]

\* c00, c10, c01, c11, then c0, c1, then EField[c]
Blend3(dp, index, rc, irc, c, junk) ==
    Lerp(irc[3], rc[3],
         Lerp(irc[2], rc[2],
              Lerp(irc[1], rc[1],
                   FieldAt(dp, Idx3(dp, index, 0, 0, 0) + c, junk),
                   FieldAt(dp, Idx3(dp, index, 0, 0, 1) + c, junk)),
              Lerp(irc[1], rc[1],
                   FieldAt(dp, Idx3(dp, index, 0, 1, 0) + c, junk),
                   FieldAt(dp, Idx3(dp, index, 0, 1, 1) + c, junk))),
         Lerp(irc[2], rc[2],
              Lerp(irc[1], rc[1],
                   FieldAt(dp, Idx3(dp, index, 1, 0, 0) + c, junk),
                   FieldAt(dp, Idx3(dp, index, 1, 0, 1) + c, junk)),
              Lerp(irc[1], rc[1],
                   FieldAt(dp, Idx3(dp, index, 1, 1, 0) + c, junk),
                   FieldAt(dp, Idx3(dp, index, 1, 1, 1) + c, junk))))

Get3DBlend(dp, index, rc, irc, junk) ==
    [ok |-> TRUE,
     E |-> [c \in 1..3 |-> Blend3(dp, index, rc, irc, c - 1, junk)]]
Get3DReduced(dp, index, rc, E0, junk) ==
    IF \E i \in 1..3 : BadReduced(rc[i]) THEN NoE(E0)
    ELSE Get3DBlend(dp, index, rc, [i \in 1..3 |-> DSub(DOne, rc[i])], junk)
Get3DIndexed(dp, coord, index, E0, junk) ==
    IF OutOfRange3(dp, coord, index) THEN NoE(E0)
    ELSE Get3DReduced(dp, index, Reduced3(dp, coord, index), E0, junk)
\* E0 is what the caller's EField held
Get3DEAtPointD(dp, coord, E0, junk) ==
    Get3DIndexed(dp, coord, Index3(dp, coord), E0, junk)

\* ---- Get2DEAtPoint: coord is <<r, z>>, E0 what field2D held
Index2(dp, coord) ==
    <<TopEdge(DTrunc(DDiv(coord[1], dp.mDelta[2])), dp.mNVal[2]),
      TopEdge(DTrunc(DDiv(DSub(coord[2], dp.mMin[3]), dp.mDelta[3])),
              dp.mNVal[3])>>

\* idx<z><r>
Idx2(dp, index, z, r) == ((index[2] + z) * dp.mStride + index[1] + r) * 2

Reduced2(dp, coord, index) ==
    <<DDiv(DSub(coord[1], DMul(DInt(index[1]), dp.mDelta[2])), dp.mDelta[2]),
      DDiv(DSub(coord[2],
                DAdd(dp.mMin[3], DMul(DInt(index[2]), dp.mDelta[3]))),
           dp.mDelta[3])>>

Blend2(dp, index, rc, irc, c, junk) ==
    Lerp(irc[2], rc[2],
         Lerp(irc[1], rc[1],
              FieldAt(dp, Idx2(dp, index, 0, 0) + c, junk),
              FieldAt(dp, Idx2(dp, index, 0, 1) + c, junk)),
         Lerp(irc[1], rc[1],
              FieldAt(dp, Idx2(dp, index, 1, 0) + c, junk),
              FieldAt(dp, Idx2(dp, index, 1, 1) + c, junk)))

Get2DBlend(dp, index, rc, irc, junk) ==
    [ok |-> TRUE,
     E |-> [c \in 1..2 |-> Blend2(dp, index, rc, irc, c - 1, junk)]]
Get2DReduced(dp, index, rc, E0, junk) ==
    IF \E i \in 1..2 : BadReduced(rc[i]) THEN NoE(E0)
    ELSE Get2DBlend(dp, index, rc, [i \in 1..2 |-> DSub(DOne, rc[i])], junk)
\* "return nan("")" from a function returning bool is true
Get2DIndexed(dp, coord, index, E0, junk) ==
    IF \E i \in 1..2 : AtLeast(index[i], dp.mNVal[i + 1])
    THEN [ok |-> TRUE, E |-> E0]
    ELSE Get2DReduced(dp, index, Reduced2(dp, coord, index), E0, junk)
Get2DEAtPoint(dp, coord, E0, junk) ==
    Get2DIndexed(dp, coord, Index2(dp, coord), E0, junk)

\* ---- GetAxEAtPoint: field2D is not initialised, it holds junk
AxMap(field2D, cosval, sinval, E0) ==
    IF field2D.ok
    THEN [ok |-> TRUE,
          E |-> <<DMul(field2D.E[1], cosval), DMul(field2D.E[1], sinval),
                  field2D.E[2]>>]
    ELSE NoE(E0)
AxAtRadius(dp, coord, r, E0, junk) ==
    AxMap(Get2DEAtPoint(dp, <<r, coord[3]>>, <<junk, junk>>, junk),
          IF DLess(DZero, r) THEN DDiv(coord[1], r) ELSE DZero,
          IF DLess(DZero, r) THEN DDiv(coord[2], r) ELSE DZero, E0)
GetAxEAtPointD(dp, coord, E0, junk) ==
    IF ~PtInBoundsD(dp, coord) THEN NoE(E0)
    ELSE AxAtRadius(dp, coord,
                    DSqrt(DAdd(DMul(coord[1], coord[1]),
                               DMul(coord[2], coord[2]))), E0, junk)

\* CD3GetEAtPoint on a CD3Data that has no daughters
GetEAtPointD(dp, coord, E0, junk) ==
    IF dp.mType > 1 THEN NoE(E0)
    ELSE IF PtInBoundsD(dp, coord)
    THEN IF dp.mType = kCD3Data2 THEN GetAxEAtPointD(dp, coord, E0, junk)
         ELSE Get3DEAtPointD(dp, coord, E0, junk)
    ELSE NoE(E0)

\* ---- the grids interpolated in
\* sample idx of a Full3D grid: a value that lets the samples be told apart
SampleNo(idx) == DRat(3 * idx + 1, 7)
Samples3(nx, ny, nz) == [k \in 1..(nx * ny * nz * 3) |-> SampleNo(k - 1)]
\* the slice with Fr = 1 and Fz = 0 everywhere
Constant2(nr, nz) ==
    [k \in 1..(nr * nz * 2) |-> IF k % 2 = 1 THEN DOne ELSE DZero]

Grids3 ==
    { Grid3D(Analysed(DZero, DInt(2), 3), Analysed(DInt(0 - 45), DInt(45), 3),
             Analysed(DZero, DOne, 2), Samples3(3, 3, 2)),
      Grid3D(Analysed(DRat(0 - 1, 10), DRat(2, 10), 2),
             Analysed(DZero, DRat(1, 10), 5),
             Analysed(DZero, DOne, 2), Samples3(2, 5, 2)) }
Grids2 ==
    { Grid2D(in, Analysed(DZero, DInt(2), 3),
             Analysed(DInt(0 - 1), DOne, 3), Constant2(3, 3)) : in \in {1, 2} }
        \cup { Grid2D(1, Analysed(DZero, DRat(3, 10), 4),
                      Analysed(DZero, DOne, 2), Constant2(4, 2)) }

\* what uninitialised memory may hold
JunkD == {DZero, DRat(22, 7)}

\* the lattice point of the indices at, each coordinate min + i * step
LatticeCoord(dp, at) ==
    [i \in 1..3 |-> DAdd(dp.mMin[i], DMul(DInt(at[i]), dp.mDelta[i]))]
Lattice(dp) ==
    { [at |-> <<ix, iy, iz>>, axis |-> 0,
       coord |-> LatticeCoord(dp, <<ix, iy, iz>>)] :
        ix \in 0..(dp.mNVal[1] - 1), iy \in 0..(dp.mNVal[2] - 1),
        iz \in 0..(dp.mNVal[3] - 1) }

\* points of the x axis (axis 1) and the y axis (axis 2) at distance d >= 0
\* from the z axis: quarters of the radial step, and one close to the axis
Fourths == 4
Distances(dp) ==
    { DMul(DInt(k), DDiv(dp.mDelta[2], DInt(Fourths))) :
        k \in 0..(Fourths * (dp.mStride - 1)) }
        \cup { DDiv(dp.mDelta[2], DInt(1024)) }
Heights(dp) ==
    { dp.mMin[3], dp.mMax[3], DAdd(dp.mMin[3], DDiv(dp.mDelta[3], DInt(3))) }
OnAxes(dp) ==
    { [at |-> <<>>, axis |-> 1, coord |-> <<d, DZero, z>>] :
        d \in Distances(dp), z \in Heights(dp) }
    \cup { [at |-> <<>>, axis |-> 2, coord |-> <<DZero, d, z>>] :
        d \in Distances(dp), z \in Heights(dp) }
\* coordinates of dimension i off the lattice: a third of a step above
\* min, just below max, max, and just outside either bound
Along(dp, i) ==
    { DAdd(dp.mMin[i], DDiv(dp.mDelta[i], DInt(3))),
      DSub(dp.mMax[i], DDiv(dp.mDelta[i], DInt(1024))),
      dp.mMax[i],
      DAdd(dp.mMax[i], DDiv(dp.mDelta[i], DInt(1024))),
      DSub(dp.mMin[i], DDiv(dp.mDelta[i], DInt(1024))) }
OffLattice(dp) ==
    { [at |-> <<>>, axis |-> 0, coord |-> <<x, y, z>>] :
        x \in Along(dp, 1), y \in Along(dp, 2), z \in Along(dp, 3) }
\* points of a slice's bounding box near its vertical edges, further from
\* the z axis than the radial max
NearEdges(dp) ==
    { [at |-> <<>>, axis |-> 0, coord |-> <<x, y, z>>] :
        x \in {dp.mMax[1], DMul(DRat(3, 4), dp.mMax[1])},
        y \in {dp.mMax[2], dp.mMin[2]}, z \in Heights(dp) }
Points(dp) ==
    IF dp.mType = kCD3Data3 THEN Lattice(dp) \cup OffLattice(dp)
    ELSE OnAxes(dp) \cup NearEdges(dp)

NotCalled == [called |-> FALSE]

InitInterp ==
    /\ ev \in { [phase |-> "interp", dp |-> dp, call |-> NotCalled] :
                dp \in Grids3 \cup Grids2 }
    /\ TreeOff
    /\ AddIdle
    /\ SmoothOff
    /\ BinOff

\* The call of CD3GetEAtPoint at the point pt.
GetEAtPoint(pt, E0, junk) ==
    /\ ev.phase = "interp"
    /\ ~ev.call.called
    /\ ev' = [ev EXCEPT !.call =
                [called |-> TRUE, at |-> pt.at, axis |-> pt.axis,
                 coord |-> pt.coord,
                 res |-> GetEAtPointD(ev.dp, pt.coord, <<E0, E0, E0>>, junk)]]
    /\ UNCHANGED notEv

NextInterp ==
    \E pt \in Points(ev.dp), E0 \in JunkD, junk \in JunkD :
        GetEAtPoint(pt, E0, junk)

SpecInterp == InitInterp /\ [][NextInterp]_vars

\* dp->mField[((iz*ny+iy)*nx+ix)*3+c]
StoredAt(dp, at, c) ==
    dp.mField[((at[3] * dp.mNVal[2] + at[2]) * dp.mNVal[1] + at[1]) * 3 + c + 1]
AtLattice ==
    /\ ev.phase = "interp" /\ ev.call.called /\ ev.dp.mType = kCD3Data3
    /\ ev.call.at # <<>>
ExactAt ==
    /\ ev.call.res.ok
    /\ \A c \in 0..2 : ev.call.res.E[c + 1] = StoredAt(ev.dp, ev.call.at, c)

\* a whole number of magnitude at most 2^20
Whole(x) == DTrunc(x) <= 2^20 /\ DTrunc(x) >= 0 - 2^20 /\ DInt(DTrunc(x)) = x
WholeGrid(dp) ==
    \A i \in 1..3 :
        /\ Whole(dp.mMin[i]) /\ Whole(dp.mDelta[i]) /\ Whole(dp.mMax[i])
        /\ DTrunc(dp.mMax[i])
            = DTrunc(dp.mMin[i]) + (dp.mNVal[i] - 1) * DTrunc(dp.mDelta[i])

\* C17 (as amended): in a Full3D grid whose min, max and step are whole
\* numbers of magnitude at most 2^20 with max = min + (count-1)*step on
\* every axis, the interpolation at the lattice point of any indices
\* (ix,iy,iz), the top edge included, succeeds and returns the stored
\* sample ((iz*ny+iy)*nx+ix)*3+c in every component c.
C17_ExactOnWholeGrids == (AtLattice /\ WholeGrid(ev.dp)) => ExactAt

C17_Witness ==
    /\ AtLattice /\ WholeGrid(ev.dp)
    /\ ev.call.at = <<2, 2, 1>>
    /\ ev.call.res.ok
    /\ ev.call.res.E[3] = SampleNo(53)

\* C17 as stated: in every Full3D grid the interpolation at the coordinate
\* min + i*step of any indices succeeds and returns the stored sample.
C17_ExactAtLattice == AtLattice => ExactAt

OnAxis(n) ==
    /\ ev.phase = "interp" /\ ev.call.called /\ ev.dp.mType = kCD3Data2
    /\ ev.call.axis = n
    /\ PtInBoundsD(ev.dp, ev.call.coord)
    /\ DLess(DZero, ev.call.coord[n])

\* C18: in a slice with Fr = 1 and Fz = 0 everywhere the value at every
\* point of the positive x axis inside the bounds is (1,0,0) and at every
\* point of the positive y axis (0,1,0).
C18_AxisDirections ==
    /\ OnAxis(1) => /\ ev.call.res.ok
                    /\ ev.call.res.E = <<DOne, DZero, DZero>>
    /\ OnAxis(2) => /\ ev.call.res.ok
                    /\ ev.call.res.E = <<DZero, DOne, DZero>>

Called3 == ev.phase = "interp" /\ ev.call.called /\ ev.dp.mType = kCD3Data3
\* k = floor(x), for x >= 0
FloorIs(x, k) == ~DLess(x, DInt(k)) /\ DLess(x, DInt(k + 1))
\* k is floor((coord - min) / step) on axis i, or count - 2 where that
\* is count - 1
LowerCorner(dp, coord, i, k) ==
    /\ k \in 0..(dp.mNVal[i] - 2)
    /\ \/ FloorIs(DDiv(DSub(coord[i], dp.mMin[i]), dp.mDelta[i]), k)
       \/ /\ k = dp.mNVal[i] - 2
          /\ FloorIs(DDiv(DSub(coord[i], dp.mMin[i]), dp.mDelta[i]), k + 1)
\* the samples of the eight corners of the cell
CellSamples(dp, index) ==
    {Idx3(dp, index, z, y, x) + c : z \in 0..1, y \in 0..1, x \in 0..1,
                                    c \in 0..2}
Rejected3(dp, coord) ==
    \A E0 \in JunkD, junk \in JunkD :
        Get3DEAtPointD(dp, coord, <<E0, E0, E0>>, junk) = NoE(<<E0, E0, E0>>)

\* C25: for a Full3D grid and a coordinate inside the closed bounds, the
\* index Get3DEAtPoint works out on each axis is floor((coord - min) /
\* step), lowered to count - 2 at the top edge, so it lies in 0..count-2 and
\* the eight corner samples of the cell lie inside mField; for a
\* coordinate outside the bounds Get3DEAtPoint and CD3GetEAtPoint return
\* false and leave EField as it was.
C25_CellInsideBuffer ==
    Called3 =>
        IF PtInBoundsD(ev.dp, ev.call.coord)
        THEN /\ \A i \in 1..3 :
                  LowerCorner(ev.dp, ev.call.coord, i,
                              Index3(ev.dp, ev.call.coord)[i])
             /\ CellSamples(ev.dp, Index3(ev.dp, ev.call.coord))
                    \subseteq 0..(Len(ev.dp.mField) - 1)
        ELSE /\ ~ev.call.res.ok
             /\ Rejected3(ev.dp, ev.call.coord)

Called2 == ev.phase = "interp" /\ ev.call.called /\ ev.dp.mType = kCD3Data2
\* r as GetAxEAtPoint works it out
RadiusOf(coord) ==
    DSqrt(DAdd(DMul(coord[1], coord[1]), DMul(coord[2], coord[2])))
\* the samples of the four corners of the cell
CellSamples2(dp, index) ==
    {Idx2(dp, index, z, r) + c : z \in 0..1, r \in 0..1, c \in 0..1}
InBuffer2(dp, index, res) ==
    \/ CellSamples2(dp, index) \subseteq 0..(Len(dp.mField) - 1)
    \/ ~res.ok

\* C26: for a slice of either layout and a point inside the bounds whose
\* radius is at most the radial max, the radial index Get2DEAtPoint works
\* out lies in 0..mStride-2, and the call either fails or interpolates in
\* four corners whose samples lie inside mField.
C26_RadialIndexInStride ==
    (Called2 /\ PtInBoundsD(ev.dp, ev.call.coord)
        /\ ~DLess(ev.dp.mMax[1], RadiusOf(ev.call.coord))) =>
        /\ Index2(ev.dp, <<RadiusOf(ev.call.coord), ev.call.coord[3]>>)[1]
              \in 0..(ev.dp.mStride - 2)
        /\ InBuffer2(ev.dp,
                     Index2(ev.dp, <<RadiusOf(ev.call.coord),
                                     ev.call.coord[3]>>),
                     ev.call.res)

\* r is above the radial max by more than the slop of a reduced coordinate
BeyondSlop(dp, r) ==
    DLess(DAdd(dp.mMax[1], DMul(DRat(1, 1000), dp.mDelta[2])), r)
\* the result is made of samples only: whatever EField and the other
\* memory read held, it is the same
Written2 ==
    \A E0 \in JunkD, junk \in JunkD :
        GetEAtPointD(ev.dp, ev.call.coord, <<E0, E0, E0>>, junk).E
            = ev.call.res.E

\* C27: for a slice, CD3GetEAtPoint returns false at every point whose
\* radius sqrt(x*x + y*y) is above the radial max by more than the slop,
\* the points inside the square bounding box included, and whenever it
\* returns true the EField it delivers was written from samples.
C27_BeyondRadiusFails ==
    Called2 =>
        /\ BeyondSlop(ev.dp, RadiusOf(ev.call.coord)) => ~ev.call.res.ok
        /\ ev.call.res.ok => Written2

C25_Witness ==
    /\ Called3 /\ ev.call.at = <<>>
    /\ PtInBoundsD(ev.dp, ev.call.coord)
    /\ \A i \in 1..2 : ev.call.coord[i] = ev.dp.mMax[i]
    /\ ev.call.coord[3] # ev.dp.mMax[3]
    /\ ev.call.res.ok
    /\ ~WholeGrid(ev.dp)

-----------------------------------------------------------------------------
(* XYCompatible and NearlyEqual of COMSOLZMerge.cpp, on two CD3Data whose  *)
(* mMin, mMax and mDelta are doubles of the arithmetic above.              *)

\* static const double fract = 1e-6
fract == DRat(1, 1000000)

\* MIN(x,y) (((x) < (y)) ? (x) : (y))
MIN(x, y) == IF DLess(x, y) THEN x ELSE y

NearlyEqual(v1, v2) ==
    DLess(DAbs(DSub(v1, v2)), DMul(fract, MIN(DAbs(v1), DAbs(v2))))

\* the result is 1 for ind1, 2 for ind2, 0 for nullptr
nullptr == 0
LowZ(ind1, ind2) == IF ~DLess(ind1.mMin[3], ind2.mMin[3]) THEN 2 ELSE 1
TouchOrOverlap(lowz, hiz) == ~DLess(lowz.mMax[3], hiz.mMin[3])
XYCompatible(ind1, ind2) ==
    IF \E i \in 1..2 : \/ ~NearlyEqual(ind1.mMin[i], ind2.mMin[i])
                       \/ ~NearlyEqual(ind1.mMax[i], ind2.mMax[i])
                       \/ ~NearlyEqual(ind1.mDelta[i], ind2.mDelta[i])
    THEN nullptr
    ELSE IF ~NearlyEqual(ind1.mDelta[3], ind2.mDelta[3]) THEN nullptr
    ELSE IF LowZ(ind1, ind2) = 2
    THEN (IF TouchOrOverlap(ind2, ind1) THEN 2 ELSE nullptr)
    ELSE (IF TouchOrOverlap(ind1, ind2) THEN 1 ELSE nullptr)

\* ---- the grids compared: x from xmin to 1, y from -1 to ymax, z as given
XMins == {DInt(0 - 1), DRat(0 - 1000003, 1000000),
          DRat(0 - 10000001, 10000000), DZero}
YZSteps == {<<DOne, DRat(1, 2)>>, <<DRat(1000003, 1000000), DRat(1, 2)>>,
            <<DOne, DRat(1, 4)>>}
ZRanges == {<<DZero, DOne>>, <<DOne, DInt(2)>>, <<DInt(2), DInt(3)>>,
            <<DRat(1, 2), DRat(3, 2)>>}
MergeGrid(xmin, yz, z) ==
    [mMin |-> <<xmin, DInt(0 - 1), z[1]>>,
     mMax |-> <<DOne, yz[1], z[2]>>,
     mDelta |-> <<DRat(1, 2), DRat(1, 2), yz[2]>>]
MergeGrids ==
    { MergeGrid(xmin, yz, z) : xmin \in XMins, yz \in YZSteps, z \in ZRanges }

InitMerge ==
    /\ ev \in { [phase |-> "merge", ind1 |-> g1, ind2 |-> g2,
                 call |-> NotCalled] : g1 \in MergeGrids, g2 \in MergeGrids }
    /\ TreeOff
    /\ AddIdle
    /\ SmoothOff
    /\ BinOff

\* MergeData's call of XYCompatible
CallXYCompatible ==
    /\ ev.phase = "merge"
    /\ ~ev.call.called
    /\ ev' = [ev EXCEPT !.call = [called |-> TRUE,
                                  res |-> XYCompatible(ev.ind1, ev.ind2)]]
    /\ UNCHANGED notEv

NextMerge == CallXYCompatible

SpecMerge == InitMerge /\ [][NextMerge]_vars

Compared == ev.phase = "merge" /\ ev.call.called
\* v1 and v2 differ by more than 1e-6 of the larger of their magnitudes
DifferMore(v1, v2) ==
    /\ DLess(DMul(fract, DAbs(v1)), DAbs(DSub(v1, v2)))
    /\ DLess(DMul(fract, DAbs(v2)), DAbs(DSub(v1, v2)))
XYDiffer(g, h) ==
    \E i \in 1..2 : \/ DifferMore(g.mMin[i], h.mMin[i])
                    \/ DifferMore(g.mMax[i], h.mMax[i])
                    \/ DifferMore(g.mDelta[i], h.mDelta[i])
XYEqual(g, h) ==
    /\ \A i \in 1..2 : /\ g.mMin[i] = h.mMin[i] /\ g.mMax[i] = h.mMax[i]
                       /\ g.mDelta[i] = h.mDelta[i]
    /\ g.mDelta[3] = h.mDelta[3]
ZTouch(g, h) ==
    ~DLess(g.mMax[3], h.mMin[3]) /\ ~DLess(h.mMax[3], g.mMin[3])
LowerZ(res) ==
    \/ res = 1 /\ ~DLess(ev.ind2.mMin[3], ev.ind1.mMin[3])
    \/ res = 2 /\ ~DLess(ev.ind1.mMin[3], ev.ind2.mMin[3])

\* C19: XYCompatible returns null for two grids whose x or y min, max or
\* step differ by more than a relative 1e-6, and for two grids with equal
\* x and y min, max and step and equal z step whose z ranges touch or
\* overlap it returns the one with the lower z minimum.
C19_RejectsAndAccepts ==
    Compared =>
        /\ XYDiffer(ev.ind1, ev.ind2) => ev.call.res = nullptr
        /\ (XYEqual(ev.ind1, ev.ind2) /\ ZTouch(ev.ind1, ev.ind2)) =>
                LowerZ(ev.call.res)

-----------------------------------------------------------------------------
(* One interior cylinder: BuildICylinder on the arguments of an icyl line, *)
(* then ICylinderPointIn on a point.  Coordinates, radius and tolerance    *)
(* are whole numbers, which the doubles of the program hold exactly, as    *)
(* they do the squares and sums formed of them.                            *)

MaxCoord == 3
Radii == {1, 2}
\* xmin ymin zmin xmax ymax zmax radius and an eighth number
IcylLines ==
    UNION { { <<1, 1, 0, 1, 1, 2, r, 0>>, <<0, 1, 1, 3, 1, 1, r, 0>>,
              <<1, 0 - 1, 0, 1, 1, 0, r, 0>>, <<1, 1, 1, 1, 1, 1, r, 0>>,
              <<0, 0, 0, 1, 1, 0, r, 0>> } : r \in Radii }
Coords == (0 - 1)..MaxCoord
Tols == {0, 1}

InitCyl ==
    /\ ev = [phase |-> "cyl", mGList |-> <<>>, mArg |-> <<>>,
             call |-> NotCalled]
    /\ TreeOff
    /\ AddIdle
    /\ SmoothOff
    /\ BinOff

\* BuildICylinder on an empty list
Build(mArg) ==
    /\ ev.phase = "cyl"
    /\ ev.mArg = <<>>
    /\ ev' = [ev EXCEPT !.mArg = mArg,
                        !.mGList = BuildICylinder(ev.mGList, mArg)]
    /\ UNCHANGED notEv

\* ICylinderPointIn on the cylinder built
PointIn(p, tol) ==
    /\ ev.phase = "cyl"
    /\ ev.mGList # <<>>
    /\ ~ev.call.called
    /\ ev' = [ev EXCEPT !.call =
                [called |-> TRUE, p |-> p, tol |-> tol,
                 res |-> ICylinderPointIn(Head(ev.mGList), p, tol)]]
    /\ UNCHANGED notEv

NextCyl ==
    \/ \E mArg \in IcylLines : Build(mArg)
    \/ \E x \in Coords, y \in Coords, z \in Coords, tol \in Tols :
            PointIn(<<x, y, z>>, tol)

SpecCyl == InitCyl /\ [][NextCyl]_vars

CylBuilt == ev.phase = "cyl" /\ ev.mGList # <<>>
\* the axis the cylinder was built with: the one along which the icyl line
\* has max > min
LongAxis == (CHOOSE i \in 1..3 : ev.mArg[i + 3] > ev.mArg[i]) - 1
\* the cyclic permutation of (0,1,2) that ends in a
Cyclic(n) == <<(n + 1) % 3, (n + 2) % 3, n>>
Square(x) == x * x
\* the squared distance of p from the min point over the axes other than n
RadialSq(p, n) ==
    Square(p[Cyclic(n)[1] + 1] - ev.mArg[Cyclic(n)[1] + 1])
        + Square(p[Cyclic(n)[2] + 1] - ev.mArg[Cyclic(n)[2] + 1])
InsideCyl(p, tol, n) ==
    /\ ev.mArg[n + 1] <= p[n + 1] /\ p[n + 1] <= ev.mArg[n + 4]
    /\ RadialSq(p, n) < Square(ev.mArg[7]) + Square(tol)

\* C20: the index triple of a cylinder built with axis a is the cyclic
\* permutation of (0,1,2) whose last index is a, and ICylinderPointIn is
\* true exactly for the points whose coordinate on axis a lies in the
\* closed interval [min,max] and whose squared distance from the min point
\* over the other two axes is below radius^2 + tol^2.
C20_CyclicAxesAndInside ==
    CylBuilt =>
        /\ <<Head(ev.mGList).mIdx0 - 1, Head(ev.mGList).mIdx1 - 1,
             Head(ev.mGList).mIdx2 - 1>> = Cyclic(LongAxis)
        /\ ev.call.called =>
            (ev.call.res <=> InsideCyl(ev.call.p, ev.call.tol, LongAxis))

\* a point inside the x cylinder thanks to the tolerance only
C20_Witness ==
    /\ CylBuilt /\ LongAxis = 0
    /\ ev.call.called /\ ev.call.res
    /\ ev.call.tol = 1
    /\ RadialSq(ev.call.p, 0) = Square(ev.mArg[7])

-----------------------------------------------------------------------------
(* CD3ListReadGeom on a geometry file of a few icyl lines.                 *)

MaxIcyl == 2
\* icyl lines: one differing axis (z, x, y), none, two, max below min, and
\* a line of seven numbers
GeomLines ==
    { ZCyl, XCyl, <<1, 0 - 1, 0, 1, 1, 0, 1, 0>>, <<1, 1, 1, 1, 1, 1, 1, 0>>,
      <<0, 0, 0, 1, 1, 0, 1, 0>>, <<1, 1, 2, 1, 1, 0, 1, 0>>,
      SubSeq(ZCyl, 1, 7) }
RECURSIVE LineLists(_)
LineLists(n) ==
    IF n = 0 THEN {<<>>}
    ELSE LineLists(n - 1)
            \cup { Append(l, x) : l \in { k \in LineLists(n - 1) :
                                           Len(k) = n - 1 },
                                  x \in GeomLines }
GeomDescs ==
    { GeomFile(FALSE, TRUE, <<>>), GeomFile(TRUE, FALSE, <<>>) }
        \cup { GeomFile(TRUE, TRUE, l) : l \in LineLists(MaxIcyl) }

InitGeom ==
    /\ ev \in { [phase |-> "geom", file |-> f, call |-> NotCalled] :
                f \in GeomDescs }
    /\ TreeOff
    /\ AddIdle
    /\ SmoothOff
    /\ BinOff

\* CD3ListReadGeom on the file
ReadGeom ==
    /\ ev.phase = "geom"
    /\ ~ev.call.called
    /\ ev' = [ev EXCEPT !.call = [called |-> TRUE,
                                  res |-> CD3ListReadGeom(ev.file)]]
    /\ UNCHANGED notEv

NextGeom == ReadGeom

SpecGeom == InitGeom /\ [][NextGeom]_vars

GeomRead == ev.phase = "geom" /\ ev.call.called /\ ev.file.opens /\ ev.file.header
\* the axes on which the min and the max point of an icyl line differ
Differing(line) == {i \in 1..3 : line[i + 3] # line[i]}
BelowMin(line) == \E i \in 1..3 : line[i + 3] < line[i]
GoodLine(line) ==
    Len(line) = 8 /\ Cardinality(Differing(line)) = 1 /\ ~BelowMin(line)
\* cylinder k of the list is the one of line Len - k + 1
OnePerLine(lines, mGList) ==
    /\ Len(mGList) = Len(lines)
    /\ \A k \in 1..Len(lines) :
        Differing(lines[k]) = {mGList[Len(lines) - k + 1].mIdx2}

\* C21: CD3ListReadGeom fails for a file with an icyl line whose min and
\* max points differ on more than one axis or on none, or whose max is
\* below min on some axis; when it succeeds every icyl line differs on
\* exactly one axis and has added one cylinder, whose longitudinal axis is
\* that axis.
C21_BadLineFailsRead ==
    GeomRead =>
        /\ (\E k \in 1..Len(ev.file.icyl) : ~GoodLine(ev.file.icyl[k])) =>
                ~ev.call.res.ok
        /\ ev.call.res.ok =>
                /\ \A k \in 1..Len(ev.file.icyl) : GoodLine(ev.file.icyl[k])
                /\ OnePerLine(ev.file.icyl, ev.call.res.mGList)

-----------------------------------------------------------------------------
(* Specification SpecInit: one call of CD3Init on a text file as CDInit    *)
(* and CDAnalyse hand it over, which goes to Init2D when two of its three  *)
(* dimensions are active.                                                  *)

FlatOne == CDRange(1, 0, 1)
InitRanges == {Flat, FlatOne, RX, CDRange(0, 2, 3), RZ}
InitNames ==
    {<<"Ey", "Ez">>, <<"Ex", "Ez">>, <<"Ex", "Ey">>,
     <<"es.Ex", "es.Ey", "es.Ez">>}
InitFiles ==
    { CDFile(3, rx, ry, rz, names) :
        rx \in InitRanges, ry \in InitRanges, rz \in InitRanges,
        names \in InitNames }

InitInit ==
    /\ ev \in { [phase |-> "init", cdp |-> f, alloc |-> alloc,
                 call |-> NotCalled] :
                f \in InitFiles, alloc \in BOOLEAN }
    /\ TreeOff
    /\ AddIdle
    /\ SmoothOff
    /\ BinOff

\* CD3Init on the file
CallCD3Init ==
    /\ ev.phase = "init"
    /\ ~ev.call.called
    /\ ev' = [ev EXCEPT !.call = [called |-> TRUE,
                                  res |-> CD3Init(ev.cdp, ev.alloc)]]
    /\ UNCHANGED notEv

NextInit == CallCD3Init

SpecInit == InitInit /\ [][NextInit]_vars

\* CD3Init has been called on a file with two active dimensions, which it
\* hands to Init2D
Init2DCalled ==
    ev.phase = "init" /\ ev.call.called /\ NActiveOf(ev.cdp) = 2
\* CD3Init has been called on a file that is not one for Init3D
NotFor3D == ev.phase = "init" /\ ev.call.called /\ NActiveOf(ev.cdp) # 3
Built2D == ev.call.res.err = kCDNoErr /\ ev.call.res.dp.mType = kCD3Data2
Inactive(cdp) == {d \in 1..3 : ~cdp.mRange[d].mActive}
MinIs0(cdp, d) == cdp.mRange[d].mMin = Dbl(0)
\* the names Init2D asks of the two columns of a slice without dimension d
SliceNames(d) == IF d = 1 THEN <<"Ey", "Ez">> ELSE <<"Ex", "Ez">>
\* the count of the one of x and y that is active
RadialCount(cdp) ==
    IF cdp.mRange[1].mActive THEN cdp.mRange[1].mNVal
    ELSE cdp.mRange[2].mNVal

Suitable2D(cdp) ==
    /\ Cardinality(Inactive(cdp)) = 1
    /\ Inactive(cdp) \subseteq {1, 2}
    /\ MinIs0(cdp, 1) /\ MinIs0(cdp, 2)
    /\ \A d \in Inactive(cdp) : cdp.mExprNames = SliceNames(d)

\* C28 (as amended): Init2D succeeds exactly when exactly one axis is
\* inactive and it is x or y, the minima of x and of y (the inactive one
\* included) are 0, there are two component columns, named Ey and Ez for a
\* slice without x and Ex and Ez for one without y, and the buffer can be
\* allocated; it fails with kCDAllocFailed when only the allocation fails
\* and with kCDBadStructure otherwise; on success the stride is the count
\* of the radial axis, the active one of x and y.
C28_Init2DSucceedsWhen ==
    NotFor3D =>
        /\ Built2D <=> (Suitable2D(ev.cdp) /\ ev.alloc)
        /\ ~Built2D =>
              ev.call.res.err = (IF Suitable2D(ev.cdp) THEN kCDAllocFailed
                                 ELSE kCDBadStructure)
        /\ Built2D => ev.call.res.dp.mStride = RadialCount(ev.cdp)

C28_Witness ==
    /\ Init2DCalled /\ Built2D
    /\ Inactive(ev.cdp) = {2}
    /\ ~MinIs0(ev.cdp, 3)
    /\ ev.call.res.dp.mStride = 3

\* the two active axes
ActiveAxes(cdp) == {d \in 1..3 : cdp.mRange[d].mActive}

\* C28 as stated: Init2D succeeds exactly when exactly one axis is
\* inactive, both active axes have min = 0 and there are two component
\* columns, and fails with kCDBadStructure otherwise; on success the
\* stride is the count of the radial axis.
C28_AsStated ==
    NotFor3D =>
        /\ Built2D <=>
              /\ Cardinality(Inactive(ev.cdp)) = 1
              /\ \A d \in ActiveAxes(ev.cdp) : MinIs0(ev.cdp, d)
              /\ ev.cdp.mNExpression = 2
        /\ ~Built2D => ev.call.res.err = kCDBadStructure
        /\ Built2D => ev.call.res.dp.mStride = RadialCount(ev.cdp)

-----------------------------------------------------------------------------
(* Specification SpecCount: the sample counts and offsets the program      *)
(* works out from mNVal, in the widths of its variables.  Numbers that an  *)
(* int of the model checker cannot hold are limb sequences; an int of the  *)
(* program is a sign and a magnitude.                                      *)

B2to31 == BShl(<<1>>, 31)
B2to32 == BShl(<<1>>, 32)
\* x modulo 2^32: the arithmetic of unsigned int
U32(x) == BNorm(<<BLimb(x, 1), BLimb(x, 2), BLimb(x, 3) % 4>>)
\* the unsigned int u converted to int
ToInt(u) ==
    IF BLess(u, B2to31) THEN [neg |-> FALSE, mag |-> u]
    ELSE [neg |-> TRUE, mag |-> BSub(B2to32, u)]
\* the int v converted to unsigned int
FromInt(v) == IF v.neg THEN BSub(B2to32, v.mag) ELSE v.mag
FitsInt(v) ==
    IF v.neg THEN ~BLess(B2to31, v.mag) ELSE BLess(v.mag, B2to31)
Scaled(v, k) == [neg |-> v.neg, mag |-> BMulSmall(v.mag, k)]
\* v * k in int.  A product that int cannot hold is undefined: the build
\* keeps its low 32 bits ("wrap") or, having widened the operands for the
\* size_t it is used as, the whole of it ("wide").
UBs == {"wrap", "wide"}
IntTimes(v, k, ub) ==
    IF FitsInt(Scaled(v, k)) THEN Scaled(v, k)
    ELSE IF ub = "wide" THEN Scaled(v, k)
    ELSE ToInt(U32(BMulSmall(FromInt(v), k)))

\* mNVal[0] * mNVal[1] * mNVal[2] in unsigned int
UProduct(nVal) ==
    U32(BMul(U32(BMul(BNat(nVal[1]), BNat(nVal[2]))), BNat(nVal[3])))
\* CD3WriteBinary, CD3ReadBinary: int npoint = the product; npoint *= 2 or 3
PayloadLength(nVal, type, ub) ==
    IntTimes(ToInt(UProduct(nVal)), Components(type), ub)
\* Init3D, Init2D: int nVal = the product; malloc(nVal * 3 * sizeof(double))
BufferLength(nVal, type, ub) ==
    IntTimes(ToInt(UProduct(nVal)), Components(type), ub)
\* const uint64_t dy = 3 * mNVal[0], dz = 3 * mNVal[0] * mNVal[1]: worked
\* out in unsigned int, then widened
OffsetDy(nVal) == U32(BMulSmall(BNat(nVal[1]), 3))
OffsetDz(nVal) == U32(BMul(U32(BMulSmall(BNat(nVal[1]), 3)), BNat(nVal[2])))

CountsOf == {2, 3, 900, 65536}
InitCount ==
    /\ ev \in { [phase |-> "count", mNVal |-> <<n0, n1, n2>>, mType |-> t,
                 call |-> NotCalled] :
                n0 \in CountsOf, n1 \in CountsOf, n2 \in CountsOf,
                t \in {kCD3Data2, kCD3Data3} }
    /\ TreeOff
    /\ AddIdle
    /\ SmoothOff
    /\ BinOff

\* The counts and offsets of one grid, as the build ub works them out.
CountAll(ub) ==
    /\ ev.phase = "count"
    /\ ~ev.call.called
    /\ ev' = [ev EXCEPT !.call =
                [called |-> TRUE,
                 payload |-> PayloadLength(ev.mNVal, ev.mType, ub),
                 buffer |-> BufferLength(ev.mNVal, ev.mType, ub),
                 dy |-> OffsetDy(ev.mNVal),
                 dz |-> OffsetDz(ev.mNVal)]]
    /\ UNCHANGED notEv

NextCount == \E ub \in UBs : CountAll(ub)

SpecCount == InitCount /\ [][NextCount]_vars

Counted == ev.phase = "count" /\ ev.call.called
\* the product of the counts and k, exactly
Exactly(counts, k) ==
    [neg |-> FALSE,
     mag |-> BMulSmall(BMul(BMul(BNat(counts[1]), BNat(counts[2])),
                            BNat(counts[3])), k)]

\* C29: the payload length of CD3WriteBinary and CD3ReadBinary and the
\* buffer length of Init3D are exactly count0 * count1 * count2 *
\* components, and the offsets dy and dz of the smoother exactly 3 * count0
\* and 3 * count0 * count1, for every grid whose product fits in 64 bits.
C29_ExactProducts ==
    Counted =>
        /\ ev.call.payload
              = Exactly(ev.mNVal, Components(ev.mType))
        /\ ev.call.buffer
              = Exactly(ev.mNVal, Components(ev.mType))
        /\ ev.call.dy = Exactly(<<ev.mNVal[1], 1, 1>>, 3).mag
        /\ ev.call.dz = Exactly(<<ev.mNVal[1], ev.mNVal[2], 1>>, 3).mag

=============================================================================
